---- MODULE Spec2Model ----
(***************************************************************************)
(* Model of the Morpheus MyProvider dashboard client logic:                *)
(*   - the session / connection state of ApiProvider (ApiContext.tsx),     *)
(*     driven by the ApiConfig and WalletDisplay components;               *)
(*   - chain / network auto-detection against the static CHAINS table;     *)
(*   - the reconciliation and configuration generator of                   *)
(*     ModelConfigGenerator.                                               *)
(* JavaScript values are modelled as follows: a string whose characters    *)
(* matter (addresses, chain ids, credentials) is a sequence of characters  *)
(* or of character codes; null and undefined are the records Null and      *)
(* Undefined; opaque strings are TLA+ strings.                             *)
(***************************************************************************)
EXTENDS Integers, Sequences, FiniteSets, Bags, TLC

(***************************************************************************)
(* Bounds of the model                                                     *)
(***************************************************************************)
\* largest number of background balance fetches in flight at once
MaxInflight == 2
\* largest number of models the node reports as served locally
MaxLocal == 2
\* largest number of active bids the operator holds
MaxBids == 2
\* largest number of notifications shown in one run
MaxShown == 3
\* largest number of full pages of bids the node holds for one query
MaxPages == 2

(***************************************************************************)
(* JavaScript values                                                       *)
(***************************************************************************)
Null == [t |-> "null"]
Undefined == [t |-> "undefined"]
JsStr(s) == [t |-> "str", s |-> s]
JsNum(n) == [t |-> "num", n |-> n]

DigitChars == <<"0", "1", "2", "3", "4", "5", "6", "7", "8", "9">>

\* Number.prototype.toString() of a non-negative integer: its decimal digits
RECURSIVE NumberToString(_)
NumberToString(n) ==
    IF n < 10 THEN <<DigitChars[n + 1]>>
    ELSE NumberToString(n \div 10) \o <<DigitChars[(n % 10) + 1]>>

\* String.prototype.toLowerCase() on one character of a hex address
LowerChar(c) ==
    CASE c = "A" -> "a" [] c = "B" -> "b" [] c = "C" -> "c"
      [] c = "D" -> "d" [] c = "E" -> "e" [] c = "F" -> "f"
      [] c = "X" -> "x" [] OTHER -> c

toLowerCase(s) == [i \in DOMAIN s |-> LowerChar(s[i])]

UpperChar(c) ==
    CASE c = "a" -> "A" [] c = "b" -> "B" [] c = "c" -> "C"
      [] c = "d" -> "D" [] c = "e" -> "E" [] c = "f" -> "F"
      [] c = "x" -> "X" [] OTHER -> c

toUpperCase(s) == [i \in DOMAIN s |-> UpperChar(s[i])]

(***************************************************************************)
(* constants.ts: the static chain / network table                          *)
(***************************************************************************)
ArbMainnetDiamond ==
    <<"0", "x", "D", "E", "8", "1", "9", "A", "a", "E", "E", "4", "7", "4", "6", "2", "6", "E", "3", "f", "3",
      "4", "E", "f", "0", "2", "6", "3", "3", "7", "3", "3", "5", "7", "e", "5", "a", "6", "C", "7", "1", "b">>
ArbTestnetDiamond ==
    <<"0", "x", "b", "8", "C", "5", "5", "c", "D", "6", "1", "3", "a", "f", "9", "4", "7", "E", "7", "3", "E",
      "2", "6", "2", "F", "0", "d", "3", "C", "5", "4", "b", "7", "2", "1", "1", "A", "f", "1", "6", "C", "F">>
BaseMainnetDiamond ==
    <<"0", "x", "6", "a", "B", "E", "1", "d", "2", "8", "2", "f", "7", "2", "B", "4", "7", "4", "E", "5", "4",
      "5", "2", "7", "D", "9", "3", "b", "9", "7", "9", "A", "4", "f", "6", "4", "d", "3", "0", "3", "0", "a">>
BaseTestnetDiamond ==
    <<"0", "x", "6", "e", "4", "d", "0", "B", "7", "7", "5", "E", "3", "C", "3", "b", "0", "2", "6", "8", "3",
      "A", "6", "F", "2", "7", "7", "A", "c", "8", "0", "2", "4", "0", "C", "4", "a", "F", "F", "9", "3", "0">>

\* Object.entries(CHAINS) flattened in iteration order, the 'name' key skipped
CHAINS ==
    << [chain |-> "arbitrum", network |-> "mainnet",
        chainId |-> <<"4", "2", "1", "6", "1">>, diamondContract |-> ArbMainnetDiamond],
       [chain |-> "arbitrum", network |-> "testnet",
        chainId |-> <<"4", "2", "1", "6", "1", "4">>, diamondContract |-> ArbTestnetDiamond],
       [chain |-> "base", network |-> "mainnet",
        chainId |-> <<"8", "4", "5", "3">>, diamondContract |-> BaseMainnetDiamond],
       [chain |-> "base", network |-> "testnet",
        chainId |-> <<"8", "4", "5", "3", "2">>, diamondContract |-> BaseTestnetDiamond] >>

\* variant: the table's address is compared as written
MatchingEntries_caseSensitive(detectedChainId, detectedDiamond) ==
    { i \in DOMAIN CHAINS :
        /\ CHAINS[i].chainId = detectedChainId
        /\ CHAINS[i].diamondContract = detectedDiamond }

\* the indices of the table entries that match, in iteration order
MatchingEntries(detectedChainId, detectedDiamond) ==
    { i \in DOMAIN CHAINS :
        /\ CHAINS[i].chainId = detectedChainId
        /\ toLowerCase(CHAINS[i].diamondContract) = detectedDiamond }

\* the nested loop of configure step 3: the first matching entry wins;
\* detectedChain and detectedNetwork stay null when nothing matches
DetectChain(detectedChainId, detectedDiamond) ==
    LET m == MatchingEntries(detectedChainId, detectedDiamond)
    IN  IF m = {}
        THEN [chain |-> "null", network |-> "null"]
        ELSE LET i == CHOOSE k \in m : \A j \in m : k <= j
             IN  [chain |-> CHAINS[i].chain, network |-> CHAINS[i].network]

\* configure step 3 on the two values read from the node's config: the
\* detected pair, or the error thrown when either is null
AutoDetect(ChainID, DiamondContractAddress) ==
    LET detectedChainId == NumberToString(ChainID.n)
        detectedDiamond == toLowerCase(DiamondContractAddress.s)
        detected == DetectChain(detectedChainId, detectedDiamond)
    IN  [chain |-> detected.chain, network |-> detected.network,
         error |-> IF detected.chain = "null" \/ detected.network = "null"
                   THEN "CHAIN_NOT_RECOGNIZED" ELSE "none"]

(***************************************************************************)
(* Inputs: what the operator types and what the remote node answers        *)
(***************************************************************************)
\* credentials as character codes; 8364 is the euro sign, outside Latin-1
Username == <<117>>
PasswordLatin1 == <<112, 119>>
PasswordWide == <<112, 8364>>

ConnectConfigs ==
    [baseUrl : {"http://node-a:8082", "http://node-b:8082"},
     username : {Username},
     password : {PasswordLatin1, PasswordWide}]

\* btoa throws InvalidCharacterError on a character code above 255
BtoaThrows(s) == \E i \in DOMAIN s : s[i] > 255

\* new ApiService(baseUrl, username, password): the constructor computes
\* btoa(`${username}:${password}`) before building the client
ApiServiceThrows(baseUrl, username, password) ==
    BtoaThrows(username \o <<58>> \o password)

ApiService(baseUrl, username, password) ==
    [baseUrl |-> baseUrl, username |-> username, password |-> password]

\* GET /healthcheck: a 200, another 2xx status, or a rejected request
HealthResponses == {"200", "204", "error"}

UnknownDiamond ==
    [i \in 1..42 |-> IF i = 1 THEN "0" ELSE IF i = 2 THEN "x" ELSE "1"]

\* the Arbitrum mainnet address with its last character changed
NearMissDiamond == [ArbMainnetDiamond EXCEPT ![42] = "c"]

\* addresses tried against the table: each entry's address as written, in
\* lower case and in upper case, and two addresses of no entry
DiamondValues ==
    LET table == {CHAINS[i].diamondContract : i \in DOMAIN CHAINS}
    IN  table
          \cup {toLowerCase(d) : d \in table}
          \cup {toUpperCase(d) : d \in table}
          \cup {UnknownDiamond, NearMissDiamond}

\* chain ids tried: those of the table, a prefix and an extension of one of
\* them, and an unknown one
ChainIDValues == {42161, 421614, 8453, 84532, 4216, 845321, 999999}

\* the answers of GET /config tried in the connect sequence
ConnectChainIDs == {42161, 84532, 999999}
ConnectDiamonds == {ArbMainnetDiamond, toLowerCase(BaseTestnetDiamond), UnknownDiamond}

MorToken == <<"0", "x", "0", "9", "2", "b", "A", "a", "D", "B">>

\* response.data of GET /config, reduced to the fields configure reads
ConfigResponses ==
    [ChainID : {JsNum(n) : n \in ConnectChainIDs} \cup {Undefined},
     DiamondContractAddress : {JsStr(d) : d \in ConnectDiamonds} \cup {Undefined},
     MorTokenAddress : {JsStr(MorToken), Undefined},
     Version : {"v2"}]

\* the two responses getBalance reads: /wallet and /blockchain/balance
WalletResponses == [address : {"0xW1"}]
BalanceResponses == [mor : {"100", "undefined"}, eth : {"7", "undefined"}]

\* a restore that hands an absent field on as it is
OrElse_keepsFirst(a, b) == a

\* a || b on strings: undefined and '' are falsy
OrElse(a, b) == IF a = "undefined" \/ a = "" THEN b ELSE a

\* ApiService.getBalance: the record built from the two responses
getBalance(walletData, balanceData) ==
    [address |-> OrElse(walletData.address, ""),
     balance |-> OrElse(balanceData.mor, "0"),
     ethBalance |-> OrElse(balanceData.eth, "0")]

(***************************************************************************)
(* Session store                                                           *)
(***************************************************************************)
NoEntry == [t |-> "null"]

\* variant: the detected chain and network are left out of the stored document
JSONstringify_withoutDetected(obj) ==
    [k \in DOMAIN obj \ {"chain", "network"} |-> obj[k]]

\* JSON.stringify of an ApiConfig object followed by sessionStorage.setItem:
\* the stored document keeps the own properties that are not undefined
JSONstringify(obj) ==
    [k \in {f \in DOMAIN obj : ~(f \in {"chain", "network"} /\ obj[f] = "undefined")} |-> obj[k]]

\* JSON.parse followed by property reads: an absent property reads undefined
JSONparse(doc) ==
    [baseUrl |-> doc.baseUrl, username |-> doc.username, password |-> doc.password,
     network |-> IF "network" \in DOMAIN doc THEN doc.network ELSE "undefined",
     chain |-> IF "chain" \in DOMAIN doc THEN doc.chain ELSE "undefined"]

\* the entries a tab can hold when the page loads: none, one written by a
\* successful configure, or one written before the chain field existed
StoredAtStart ==
    {NoEntry}
      \cup {JSONstringify([baseUrl |-> "http://node-a:8082", username |-> Username,
                           password |-> PasswordLatin1, chain |-> c, network |-> n]) :
              c \in {"arbitrum", "base", "undefined"}, n \in {"mainnet", "testnet"}}

(***************************************************************************)
(* State                                                                   *)
(***************************************************************************)
VARIABLES
    sessionStorage,     \* the value under STORAGE_KEY, or NoEntry
    apiService,         \* useState: the client, or Null
    isConfigured,       \* useState
    walletBalance,      \* useState: WalletBalance or Null
    network,            \* useState: "mainnet", "testnet" or "null"
    chain,              \* useState: "arbitrum", "base" or "null"
    configValidation,   \* useState: ConfigValidation or Null
    mounted,            \* the restore effect of ApiProvider has run
    isLoading,          \* ApiConfig: a handleConnect is in progress
    connectNotice,      \* ApiConfig: title of the notification of the last connect / disconnect
    cfgPc,              \* position of the configure call: idle, health, config, balance
    cfgConfig,          \* configure: its argument
    cfgProxy,           \* configure: proxyConfig
    cfgDetected,        \* configure: detectedChain / detectedNetwork
    cfgBalance,         \* configure: balance
    cfgOutcome,         \* how the promise of the last configure call settled
    callLog,            \* steps the current / last configure call has started
    stepLog,            \* results of the steps that call has finished
    inflight,           \* background getBalance calls not yet settled
    balanceVia,         \* the client through which walletBalance was fetched
    lastOp,             \* the operation that took the last step
    \* chain detection applied to a pair of values
    detPc,              \* off, input or done
    detChainID,         \* proxyConfig.DerivedConfig.ChainID
    detDiamond,         \* proxyConfig.Config.Marketplace.DiamondContractAddress
    detResult,          \* detected chain and network, or the error thrown
    \* ModelConfigGenerator
    syncPc,             \* off, fetched, analyzed or form
    localModels,        \* useState
    blockchainBids,     \* useState
    blockchainModels,   \* useState
    syncStatus,         \* useState
    modelConfigs,       \* useState: Record<modelId, ModelConfigEntry> in insertion order
    showEnvOutput,      \* useState
    renderedOutput,     \* what the output panel shows: hidden, a document or a thrown error
    copyNotice,         \* title of the last notification of the component
    \* NotificationProvider
    notifications,      \* useState: the queue
    timers,             \* pending setTimeout callbacks, each holding the id it dismisses
    notifyOp,           \* the call that took the last step and its argument
    \* an ApiService operation running against a node
    apiPc,              \* off, idle, the request awaited, or settled
    apiOp,              \* the operation called
    apiAddress,         \* getBids / getProviderStatus: address
    apiOffset,          \* getBidsForModel: offset
    allBids,            \* getBidsForModel: allBids
    apiRequests,        \* the requests the operation has issued, with how each ended
    apiResult,          \* how the returned promise stands: pending, resolved, rejected
    nodeBidCount,       \* the number of active bids the node holds for the query
    \* ApiService.parseError applied to a caught value
    parsePc,            \* off, input or done
    parseInput,         \* the caught value
    parseOutput,        \* the message returned
    \* ApiService.checkEndpointReachability
    probePc,            \* off, called, dns, fetch or done
    probeEndpoint,      \* the argument
    isHttpsPage,        \* window.location.protocol === 'https:'
    resolvedIp,         \* the address the probe goes on with
    probeResult,        \* how the returned promise stands
    \* ProviderTab, ModelTab and ModelConfigGenerator: create and delete workflows
    wfKind,             \* the handler that ran last
    wfPc,               \* idle, or what the handler awaits
    wfStep,             \* the mutation its retry loop is on
    wfForm,             \* the form values the handler read
    isCreating,         \* useState: busy flag of the create handlers and of ModelTab's deletes
    isDeleting,         \* useState: busy flag of the other delete handlers
    retryCount,         \* retryCount of the running loop
    events,             \* what the handler has done so far: requests, waits, dialog steps
    lastError,          \* the error the last failed attempt of the running loop was rejected with
    tabNotice,          \* the last notification the handler showed
    actualModelId,      \* handleCreateModelAndBid: actualModelId
    confirmDialog,      \* the confirmation dialog: open, and the item it is about
    formEndpoint,       \* ProviderTab useState endpoint: the text of the endpoint field
    endpointStatus,     \* ProviderTab useState: unchecked, checking, reachable, unreachable, unverifiable
    isCheckingEndpoint, \* ProviderTab useState
    diagnosticMessage,  \* ProviderTab useState
    checkArg,           \* the endpoint the probe in flight was called with, or Null
    probedLast,         \* the endpoint the most recently completed probe ran against, or Null
    createAttempt,      \* the last click on Create: field text, status, stake, and whether requests followed
    formNotice          \* the title of the last notification of the endpoint form

sessionVars ==
    <<sessionStorage, apiService, isConfigured, walletBalance, network, chain,
      configValidation, mounted, isLoading, connectNotice, cfgPc, cfgConfig, cfgProxy,
      cfgDetected, cfgBalance, cfgOutcome, callLog, stepLog, inflight, balanceVia, lastOp>>

detectVars == <<detPc, detChainID, detDiamond, detResult>>

syncVars ==
    <<syncPc, localModels, blockchainBids, blockchainModels, syncStatus, modelConfigs,
      showEnvOutput, renderedOutput, copyNotice>>

notifyVars == <<notifications, timers, notifyOp>>

clientVars ==
    <<apiPc, apiOp, apiAddress, apiOffset, allBids, apiRequests, apiResult, nodeBidCount>>

parseVars == <<parsePc, parseInput, parseOutput>>

probeVars == <<probePc, probeEndpoint, isHttpsPage, resolvedIp, probeResult>>

tabVars ==
    <<wfKind, wfPc, wfStep, wfForm, isCreating, isDeleting, retryCount, events, lastError,
      tabNotice, actualModelId, confirmDialog>>

formVars ==
    <<formEndpoint, endpointStatus, isCheckingEndpoint, diagnosticMessage, checkArg,
      probedLast, createAttempt, formNotice>>

toolVars == <<notifyVars, clientVars, parseVars, probeVars, tabVars, formVars>>

\* what the actions of one component leave alone
outsideNotify == <<sessionVars, detectVars, syncVars, clientVars, parseVars, probeVars, tabVars, formVars>>
outsideClient == <<sessionVars, detectVars, syncVars, notifyVars, parseVars, probeVars, tabVars, formVars>>
outsideParse == <<sessionVars, detectVars, syncVars, notifyVars, clientVars, probeVars, tabVars, formVars>>
outsideProbe == <<sessionVars, detectVars, syncVars, notifyVars, clientVars, parseVars, tabVars, formVars>>
outsideForm == <<sessionVars, detectVars, syncVars, notifyVars, clientVars, parseVars, probeVars, tabVars>>
outsideTab == <<sessionVars, detectVars, syncVars, notifyVars, clientVars, parseVars, probeVars, formVars>>

vars == <<sessionVars, detectVars, syncVars, toolVars>>

NoDetection == [chain |-> "null", network |-> "null"]

DetectOff ==
    /\ detPc = "off"
    /\ detChainID = Null
    /\ detDiamond = Null
    /\ detResult = Null

SyncOff ==
    /\ syncPc = "off"
    /\ localModels = <<>>
    /\ blockchainBids = <<>>
    /\ blockchainModels = <<>>
    /\ syncStatus = <<>>
    /\ modelConfigs = <<>>
    /\ showEnvOutput = FALSE
    /\ renderedOutput = [kind |-> "hidden"]
    /\ copyNotice = "none"

NotifyOff ==
    /\ notifications = <<>>
    /\ timers = EmptyBag
    /\ notifyOp = [op |-> "none"]

ClientOff ==
    /\ apiPc = "off"
    /\ apiOp = "none"
    /\ apiAddress = Undefined
    /\ apiOffset = 0
    /\ allBids = <<>>
    /\ apiRequests = <<>>
    /\ apiResult = [kind |-> "none"]
    /\ nodeBidCount = 0

ParseOff ==
    /\ parsePc = "off"
    /\ parseInput = Null
    /\ parseOutput = ""

ProbeOff ==
    /\ probePc = "off"
    /\ probeEndpoint = <<>>
    /\ isHttpsPage = FALSE
    /\ resolvedIp = <<>>
    /\ probeResult = [kind |-> "none"]

NoDialog == [open |-> FALSE, kind |-> "none", item |-> ""]

TabOff ==
    /\ wfKind = "none"
    /\ wfPc = "off"
    /\ wfStep = "none"
    /\ wfForm = Null
    /\ isCreating = FALSE
    /\ isDeleting = FALSE
    /\ retryCount = 0
    /\ events = <<>>
    /\ lastError = Null
    /\ tabNotice = [type |-> "none", title |-> "", message |-> ""]
    /\ actualModelId = ""
    /\ confirmDialog = NoDialog

FormOff ==
    /\ formEndpoint = <<>>
    /\ endpointStatus = "off"
    /\ isCheckingEndpoint = FALSE
    /\ diagnosticMessage = ""
    /\ checkArg = Null
    /\ probedLast = Null
    /\ createAttempt = Null
    /\ formNotice = "none"

ToolsOff == NotifyOff /\ ClientOff /\ ParseOff /\ ProbeOff /\ TabOff /\ FormOff

SessionInit(stored) ==
    /\ sessionStorage \in stored
    /\ apiService = Null
    /\ isConfigured = FALSE
    /\ walletBalance = Null
    /\ network = "null"
    /\ chain = "null"
    /\ configValidation = Null
    /\ mounted = FALSE
    /\ isLoading = FALSE
    /\ connectNotice = "none"
    /\ cfgPc = "idle"
    /\ cfgConfig = Null
    /\ cfgProxy = Null
    /\ cfgDetected = NoDetection
    /\ cfgBalance = Null
    /\ cfgOutcome = "none"
    /\ callLog = <<>>
    /\ stepLog = <<>>
    /\ inflight = EmptyBag
    /\ balanceVia = Null
    /\ lastOp = "init"

\* the session as a successful configure leaves it, for the components that
\* are only rendered while connected
SessionConnected ==
    LET config == [baseUrl |-> "http://node-a:8082", username |-> Username,
                   password |-> PasswordLatin1]
        service == ApiService(config.baseUrl, config.username, config.password)
        balance == getBalance([address |-> "0xW1"], [mor |-> "100", eth |-> "7"])
    IN  /\ sessionStorage = JSONstringify([baseUrl |-> config.baseUrl,
                                           username |-> config.username,
                                           password |-> config.password,
                                           chain |-> "arbitrum", network |-> "mainnet"])
        /\ apiService = service
        /\ isConfigured = TRUE
        /\ walletBalance = balance
        /\ network = "mainnet"
        /\ chain = "arbitrum"
        /\ configValidation = [isValid |-> TRUE, chainId |-> 42161,
                               diamondContract |-> toLowerCase(ArbMainnetDiamond),
                               morTokenContract |-> toLowerCase(MorToken),
                               Version |-> "v2"]
        /\ mounted = TRUE
        /\ isLoading = FALSE
        /\ connectNotice = "Connected"
        /\ cfgPc = "idle"
        /\ cfgConfig = config
        /\ cfgProxy = Null
        /\ cfgDetected = NoDetection
        /\ cfgBalance = balance
        /\ cfgOutcome = "resolved"
        /\ callLog = <<"healthCheck", "getConfig", "match", "getBalance", "setItem">>
        /\ stepLog = <<"ok", "ok", "ok", "ok">>
        /\ inflight = EmptyBag
        /\ balanceVia = service
        /\ lastOp = "configure"

Init ==
    /\ SessionInit(StoredAtStart)
    /\ DetectOff
    /\ SyncOff
    /\ ToolsOff

(***************************************************************************)
(* ApiProvider: restore on mount                                           *)
(***************************************************************************)
\* variant: the restored session is not marked configured until the balance arrives
RestoreOnMount_notConfigured ==
    /\ ~mounted
    /\ mounted' = TRUE
    /\ lastOp' = "restore"
    /\ IF sessionStorage = NoEntry
       THEN UNCHANGED <<sessionStorage, apiService, network, chain, inflight>>
       ELSE LET config == JSONparse(sessionStorage)
                service == ApiService(config.baseUrl, config.username, config.password)
            IN  /\ apiService' = service
                /\ network' = IF config.network = "undefined" THEN "null" ELSE config.network
                /\ chain' = OrElse(config.chain, "arbitrum")
                /\ inflight' = inflight (+) SetToBag({[service |-> service, origin |-> "restore"]})
                /\ UNCHANGED sessionStorage
    /\ UNCHANGED <<isConfigured, walletBalance, configValidation, isLoading, connectNotice, cfgPc,
                   cfgConfig, cfgProxy, cfgDetected, cfgBalance, cfgOutcome, callLog, stepLog,
                   balanceVia>>
    /\ UNCHANGED <<detectVars, syncVars, toolVars>>

RestoreOnMount ==
    /\ ~mounted
    /\ mounted' = TRUE
    /\ lastOp' = "restore"
    /\ IF sessionStorage = NoEntry
       THEN UNCHANGED <<sessionStorage, apiService, isConfigured, network, chain, inflight>>
       ELSE LET config == JSONparse(sessionStorage)
            IN  IF ApiServiceThrows(config.baseUrl, config.username, config.password)
                THEN /\ sessionStorage' = NoEntry
                     /\ UNCHANGED <<apiService, isConfigured, network, chain, inflight>>
                ELSE LET service == ApiService(config.baseUrl, config.username, config.password)
                     IN  /\ apiService' = service
                         /\ network' = IF config.network = "undefined" THEN "null" ELSE config.network
                         /\ chain' = OrElse(config.chain, "arbitrum")
                         /\ isConfigured' = TRUE
                         /\ inflight' = inflight (+) SetToBag({[service |-> service, origin |-> "restore"]})
                         /\ UNCHANGED sessionStorage
    /\ UNCHANGED <<walletBalance, configValidation, isLoading, connectNotice, cfgPc, cfgConfig,
                   cfgProxy, cfgDetected, cfgBalance, cfgOutcome, callLog, stepLog, balanceVia>>
    /\ UNCHANGED <<detectVars, syncVars, toolVars>>

(***************************************************************************)
(* ApiConfig.handleConnect and ApiProvider.configure                       *)
(***************************************************************************)
\* the switch of handleConnect's catch block: error message -> notification title
ConnectErrorTitle(errorMessage) ==
    CASE errorMessage = "HEALTHCHECK_FAILED" -> "Connection Failed"
      [] errorMessage = "CONFIG_FETCH_FAILED" -> "Configuration Error"
      [] errorMessage = "AUTH_FAILED" -> "Authentication Failed"
      [] errorMessage = "CHAIN_NOT_RECOGNIZED" -> "Unknown Chain Configuration"
      [] OTHER -> "Connection Error"

\* configure throws: its locals go, the promise rejects, handleConnect's catch
\* and finally run
ConfigureRejects(err) ==
    /\ cfgPc' = "idle"
    /\ cfgProxy' = Null
    /\ cfgDetected' = NoDetection
    /\ cfgOutcome' = err
    /\ connectNotice' = ConnectErrorTitle(err)
    /\ isLoading' = FALSE

\* handleConnect up to the first await inside configure
HandleConnect(config) ==
    /\ mounted
    /\ ~isConfigured
    /\ ~isLoading
    /\ config.baseUrl # "" /\ config.username # <<>> /\ config.password # <<>>
    /\ lastOp' = "configure"
    /\ cfgConfig' = config
    /\ cfgBalance' = Null
    /\ stepLog' = <<>>
    /\ IF ApiServiceThrows(config.baseUrl, config.username, config.password)
       THEN /\ ConfigureRejects("InvalidCharacterError")
            /\ callLog' = <<>>
       ELSE /\ cfgPc' = "health"
            /\ cfgProxy' = Null
            /\ cfgDetected' = NoDetection
            /\ cfgOutcome' = "pending"
            /\ callLog' = <<"healthCheck">>
            /\ isLoading' = TRUE
            /\ UNCHANGED connectNotice
    /\ UNCHANGED <<sessionStorage, apiService, isConfigured, walletBalance, network, chain,
                   configValidation, mounted, inflight, balanceVia>>
    /\ UNCHANGED <<detectVars, syncVars, toolVars>>

\* variant: any answered request counts as healthy
healthCheck_anyAnswer(response) == response # "error"

\* ApiService.healthCheck: true exactly on status 200, false on anything else
healthCheck(response) == response = "200"

\* Step 1 settles
HealthCheckReturns(response) ==
    /\ cfgPc = "health"
    /\ lastOp' = "configure"
    /\ stepLog' = Append(stepLog, IF response = "200" THEN "ok" ELSE "fail")
    /\ IF healthCheck(response)
       THEN /\ cfgPc' = "config"
            /\ callLog' = Append(callLog, "getConfig")
            /\ UNCHANGED <<cfgOutcome, connectNotice, isLoading, cfgProxy, cfgDetected>>
       ELSE /\ ConfigureRejects("HEALTHCHECK_FAILED")
            /\ UNCHANGED callLog
    /\ UNCHANGED <<sessionStorage, apiService, isConfigured, walletBalance, network, chain,
                   configValidation, mounted, cfgConfig, cfgBalance, inflight, balanceVia>>
    /\ UNCHANGED <<detectVars, syncVars, toolVars>>

\* Step 2 rejects
GetConfigFails ==
    /\ cfgPc = "config"
    /\ lastOp' = "configure"
    /\ stepLog' = Append(stepLog, "fail")
    /\ ConfigureRejects("CONFIG_FETCH_FAILED")
    /\ UNCHANGED <<sessionStorage, apiService, isConfigured, walletBalance, network, chain,
                   configValidation, mounted, cfgConfig, cfgBalance, callLog, inflight,
                   balanceVia>>
    /\ UNCHANGED <<detectVars, syncVars, toolVars>>

\* Step 2 resolves; steps 3 and 4 run up to the await of step 5
GetConfigReturns(proxyConfig) ==
    /\ cfgPc = "config"
    /\ lastOp' = "configure"
    /\ IF proxyConfig.ChainID = Undefined \/ proxyConfig.DiamondContractAddress = Undefined
       THEN \* .toString() / .toLowerCase() of undefined
            /\ stepLog' = Append(stepLog, "ok")
            /\ ConfigureRejects("TypeError")
            /\ UNCHANGED callLog
       ELSE LET detected == AutoDetect(proxyConfig.ChainID, proxyConfig.DiamondContractAddress)
            IN  IF detected.error # "none"
                THEN /\ stepLog' = stepLog \o <<"ok", "fail">>
                     /\ callLog' = Append(callLog, "match")
                     /\ ConfigureRejects("CHAIN_NOT_RECOGNIZED")
                ELSE IF proxyConfig.MorTokenAddress = Undefined
                THEN \* .toLowerCase() of undefined in step 4
                     /\ stepLog' = stepLog \o <<"ok", "ok">>
                     /\ callLog' = Append(callLog, "match")
                     /\ ConfigureRejects("TypeError")
                ELSE /\ stepLog' = stepLog \o <<"ok", "ok">>
                     /\ callLog' = callLog \o <<"match", "getBalance">>
                     /\ cfgPc' = "balance"
                     /\ cfgProxy' = proxyConfig
                     /\ cfgDetected' = [chain |-> detected.chain, network |-> detected.network]
                     /\ UNCHANGED <<cfgOutcome, connectNotice, isLoading>>
    /\ UNCHANGED <<sessionStorage, apiService, isConfigured, walletBalance, network, chain,
                   configValidation, mounted, cfgConfig, cfgBalance, inflight, balanceVia>>
    /\ UNCHANGED <<detectVars, syncVars, toolVars>>

\* variant: the configuration is persisted before the balance fetch is awaited
GetBalanceFails_persistedEarly ==
    /\ cfgPc = "balance"
    /\ lastOp' = "configure"
    /\ stepLog' = Append(stepLog, "fail")
    /\ ConfigureRejects("AUTH_FAILED")
    /\ sessionStorage' = [baseUrl |-> cfgConfig.baseUrl, username |-> cfgConfig.username,
                          password |-> cfgConfig.password,
                          chain |-> cfgDetected.chain, network |-> cfgDetected.network]
    /\ UNCHANGED <<apiService, isConfigured, walletBalance, network, chain,
                   configValidation, mounted, cfgConfig, cfgBalance, callLog, inflight,
                   balanceVia>>
    /\ UNCHANGED <<detectVars, syncVars, toolVars>>

\* Step 5 rejects
GetBalanceFails ==
    /\ cfgPc = "balance"
    /\ lastOp' = "configure"
    /\ stepLog' = Append(stepLog, "fail")
    /\ ConfigureRejects("AUTH_FAILED")
    /\ UNCHANGED <<sessionStorage, apiService, isConfigured, walletBalance, network, chain,
                   configValidation, mounted, cfgConfig, cfgBalance, callLog, inflight,
                   balanceVia>>
    /\ UNCHANGED <<detectVars, syncVars, toolVars>>

\* Step 5 resolves; step 6 runs and handleConnect reports success
GetBalanceReturns(walletData, balanceData) ==
    /\ cfgPc = "balance"
    /\ lastOp' = "configure"
    /\ LET balance == getBalance(walletData, balanceData)
           service == ApiService(cfgConfig.baseUrl, cfgConfig.username, cfgConfig.password)
           fullConfig == [baseUrl |-> cfgConfig.baseUrl, username |-> cfgConfig.username,
                          password |-> cfgConfig.password,
                          chain |-> cfgDetected.chain, network |-> cfgDetected.network]
       IN  /\ cfgBalance' = balance
           /\ stepLog' = Append(stepLog, "ok")
           /\ callLog' = Append(callLog, "setItem")
           /\ sessionStorage' = JSONstringify(fullConfig)
           /\ apiService' = service
           /\ walletBalance' = balance
           /\ balanceVia' = service
           /\ network' = cfgDetected.network
           /\ chain' = cfgDetected.chain
           /\ configValidation' =
                [isValid |-> TRUE,
                 chainId |-> cfgProxy.ChainID.n,
                 diamondContract |-> toLowerCase(cfgProxy.DiamondContractAddress.s),
                 morTokenContract |-> toLowerCase(cfgProxy.MorTokenAddress.s),
                 Version |-> cfgProxy.Version]
           /\ isConfigured' = TRUE
    /\ cfgPc' = "idle"
    /\ cfgOutcome' = "resolved"
    /\ connectNotice' = IF chain # "null" /\ network # "null"
                        THEN "Connected & Auto-Detected" ELSE "Connected"
    /\ isLoading' = FALSE
    /\ cfgProxy' = Null
    /\ cfgDetected' = NoDetection
    /\ UNCHANGED <<mounted, cfgConfig, inflight>>
    /\ UNCHANGED <<detectVars, syncVars, toolVars>>

(***************************************************************************)
(* ApiProvider.refreshWallet, background balance fetches, clearConfig      *)
(***************************************************************************)
\* refreshWallet up to its await; WalletDisplay renders only when configured
RefreshWallet ==
    /\ mounted
    /\ isConfigured
    /\ BagCardinality(inflight) < MaxInflight
    /\ lastOp' = "refreshWallet"
    /\ IF apiService = Null
       THEN UNCHANGED inflight
       ELSE inflight' = inflight (+) SetToBag({[service |-> apiService, origin |-> "refresh"]})
    /\ UNCHANGED <<sessionStorage, apiService, isConfigured, walletBalance, network, chain,
                   configValidation, mounted, isLoading, connectNotice, cfgPc, cfgConfig,
                   cfgProxy, cfgDetected, cfgBalance, cfgOutcome, callLog, stepLog, balanceVia>>
    /\ UNCHANGED <<detectVars, syncVars, toolVars>>

\* a getBalance started by the restore effect or by refreshWallet resolves:
\* .then(setWalletBalance) / setWalletBalance(balance)
BackgroundBalanceReturns(call, walletData, balanceData) ==
    /\ BagIn(call, inflight)
    /\ lastOp' = call.origin \o ":resolved"
    /\ walletBalance' = getBalance(walletData, balanceData)
    /\ balanceVia' = call.service
    /\ inflight' = inflight (-) SetToBag({call})
    /\ UNCHANGED <<sessionStorage, apiService, isConfigured, network, chain,
                   configValidation, mounted, isLoading, connectNotice, cfgPc, cfgConfig,
                   cfgProxy, cfgDetected, cfgBalance, cfgOutcome, callLog, stepLog>>
    /\ UNCHANGED <<detectVars, syncVars, toolVars>>

\* variant: a failed fetch clears the held balance
BackgroundBalanceFails_clearsBalance(call) ==
    /\ BagIn(call, inflight)
    /\ lastOp' = call.origin \o ":rejected"
    /\ inflight' = inflight (-) SetToBag({call})
    /\ walletBalance' = Null
    /\ UNCHANGED <<sessionStorage, apiService, isConfigured, network, chain,
                   configValidation, mounted, isLoading, connectNotice, cfgPc, cfgConfig,
                   cfgProxy, cfgDetected, cfgBalance, cfgOutcome, callLog, stepLog, balanceVia>>
    /\ UNCHANGED <<detectVars, syncVars, toolVars>>

\* it rejects: .catch(console.error) / the catch of refreshWallet
BackgroundBalanceFails(call) ==
    /\ BagIn(call, inflight)
    /\ lastOp' = call.origin \o ":rejected"
    /\ inflight' = inflight (-) SetToBag({call})
    /\ UNCHANGED <<sessionStorage, apiService, isConfigured, walletBalance, network, chain,
                   configValidation, mounted, isLoading, connectNotice, cfgPc, cfgConfig,
                   cfgProxy, cfgDetected, cfgBalance, cfgOutcome, callLog, stepLog, balanceVia>>
    /\ UNCHANGED <<detectVars, syncVars, toolVars>>

\* variant: the session-store entry is not removed
ClearConfig_keepsEntry ==
    /\ mounted
    /\ isConfigured
    /\ lastOp' = "clearConfig"
    /\ apiService' = Null
    /\ walletBalance' = Null
    /\ balanceVia' = Null
    /\ network' = "null"
    /\ chain' = "null"
    /\ configValidation' = Null
    /\ isConfigured' = FALSE
    /\ connectNotice' = "Disconnected"
    /\ UNCHANGED <<sessionStorage, mounted, isLoading, cfgPc, cfgConfig, cfgProxy, cfgDetected,
                   cfgBalance, cfgOutcome, callLog, stepLog, inflight>>
    /\ UNCHANGED <<detectVars, syncVars, toolVars>>

\* handleDisconnect -> clearConfig; the button is rendered only when configured
ClearConfig ==
    /\ mounted
    /\ isConfigured
    /\ lastOp' = "clearConfig"
    /\ sessionStorage' = NoEntry
    /\ apiService' = Null
    /\ walletBalance' = Null
    /\ balanceVia' = Null
    /\ network' = "null"
    /\ chain' = "null"
    /\ configValidation' = Null
    /\ isConfigured' = FALSE
    /\ connectNotice' = "Disconnected"
    /\ UNCHANGED <<mounted, isLoading, cfgPc, cfgConfig, cfgProxy, cfgDetected, cfgBalance,
                   cfgOutcome, callLog, stepLog, inflight>>
    /\ UNCHANGED <<detectVars, syncVars, toolVars>>

Next ==
    \/ RestoreOnMount
    \/ \E config \in ConnectConfigs : HandleConnect(config)
    \/ \E response \in HealthResponses : HealthCheckReturns(response)
    \/ GetConfigFails
    \/ \E proxyConfig \in ConfigResponses : GetConfigReturns(proxyConfig)
    \/ GetBalanceFails
    \/ \E w \in WalletResponses, b \in BalanceResponses : GetBalanceReturns(w, b)
    \/ RefreshWallet
    \/ \E call \in BagToSet(inflight), w \in WalletResponses, b \in BalanceResponses :
          BackgroundBalanceReturns(call, w, b)
    \/ \E call \in BagToSet(inflight) : BackgroundBalanceFails(call)
    \/ ClearConfig

Spec == Init /\ [][Next]_vars

(***************************************************************************)
(* Properties of the session state machine                                 *)
(***************************************************************************)
ConnectOrder == <<"healthCheck", "getConfig", "match", "getBalance", "setItem">>

IsPrefix(s, t) == Len(s) <= Len(t) /\ SubSeq(t, 1, Len(s)) = s

\* C1: within one configure call the steps are started in the order health
\* check, config fetch, chain match, balance fetch, session-store write; a
\* step is started only after every earlier step succeeded; after a failed
\* health check nothing but the health check was invoked.
C1_ConnectStepsInOrder ==
    /\ IsPrefix(callLog, ConnectOrder)
    /\ \A i \in 1..(Len(callLog) - 1) : i \in DOMAIN stepLog /\ stepLog[i] = "ok"
    /\ (stepLog # <<>> /\ stepLog[1] = "fail") => callLog = <<"healthCheck">>

C1_HealthFailureReached ==
    /\ cfgOutcome = "HEALTHCHECK_FAILED"
    /\ callLog = <<"healthCheck">>
    /\ stepLog = <<"fail">>

ConnectErrorCodes ==
    {"HEALTHCHECK_FAILED", "CONFIG_FETCH_FAILED", "CHAIN_NOT_RECOGNIZED", "AUTH_FAILED"}

\* C2: a configure call that does not succeed rejects with one of the four
\* codes, the code of the first failing step; configure produces no other
\* error value.
C2_OnlyTheFourCodes ==
    /\ cfgOutcome \in {"none", "pending", "resolved"} \cup ConnectErrorCodes
    /\ cfgOutcome = "HEALTHCHECK_FAILED" => stepLog = <<"fail">>
    /\ cfgOutcome = "CONFIG_FETCH_FAILED" => stepLog = <<"ok", "fail">>
    /\ cfgOutcome = "CHAIN_NOT_RECOGNIZED" => stepLog = <<"ok", "ok", "fail">>
    /\ cfgOutcome = "AUTH_FAILED" => stepLog = <<"ok", "ok", "ok", "fail">>

\* a step in which a configure call ends without success
ConfigureFailsStep ==
    /\ lastOp' = "configure"
    /\ cfgPc' = "idle"
    /\ cfgOutcome' # "resolved"

\* C3: a configure call that fails ends with the session Disconnected and has
\* written nothing: the session store, the client, the wallet balance, the
\* chain, the network and isConfigured are as they were before the call's
\* last step.
C3_FailedConfigureChangesNothing ==
    [][ConfigureFailsStep =>
          /\ ~isConfigured'
          /\ UNCHANGED <<sessionStorage, apiService, walletBalance, chain, network,
                         isConfigured, configValidation>>]_vars

C3_AuthFailureReached ==
    /\ lastOp = "configure"
    /\ cfgOutcome = "AUTH_FAILED"
    /\ ~isConfigured
    /\ sessionStorage = NoEntry
    /\ apiService = Null

\* C4: when all steps succeed the session is Connected, the session-store
\* entry holds baseUrl, username and password as supplied with the detected
\* chain and network, these equal the chain and network in memory and are
\* those of the table entry the node's answer matches, and the wallet balance
\* in memory is the one step 5 returned.
C4_SuccessfulConfigurePersists ==
    [][(lastOp' = "configure" /\ cfgOutcome' = "resolved") =>
          /\ isConfigured'
          /\ apiService' = [baseUrl |-> cfgConfig.baseUrl, username |-> cfgConfig.username,
                            password |-> cfgConfig.password]
          /\ sessionStorage' = [baseUrl |-> cfgConfig.baseUrl, username |-> cfgConfig.username,
                                password |-> cfgConfig.password,
                                chain |-> chain', network |-> network']
          /\ \E i \in DOMAIN CHAINS :
                /\ chain' = CHAINS[i].chain
                /\ network' = CHAINS[i].network
                /\ CHAINS[i].chainId = NumberToString(cfgProxy.ChainID.n)
          /\ walletBalance' = cfgBalance'
          /\ cfgBalance' # Null]_vars

C4_ConnectedReached ==
    /\ lastOp = "configure"
    /\ cfgOutcome = "resolved"
    /\ isConfigured
    /\ sessionStorage # NoEntry
    /\ callLog = ConnectOrder

\* C5: clearConfig in the Connected state leads to Disconnected with the
\* session-store entry removed and client, balance, chain and network null.
C5_ClearConfigClearsAll ==
    [][(isConfigured /\ lastOp' = "clearConfig") =>
          /\ ~isConfigured'
          /\ sessionStorage' = NoEntry
          /\ apiService' = Null
          /\ walletBalance' = Null
          /\ chain' = "null"
          /\ network' = "null"]_vars

C5_ClearedReached ==
    /\ lastOp = "clearConfig"
    /\ ~isConfigured
    /\ sessionStorage = NoEntry
    /\ walletBalance = Null

\* C6: no step of refreshWallet changes isConfigured, the client, the chain,
\* the network or the session-store entry; when its balance fetch fails the
\* held balance is kept too.
C6_RefreshWalletKeepsConnection ==
    [][(lastOp' \in {"refreshWallet", "refresh:resolved", "refresh:rejected"}) =>
          /\ UNCHANGED <<isConfigured, apiService, chain, network, sessionStorage>>
          /\ lastOp' = "refresh:rejected" => UNCHANGED walletBalance]_vars

C6_FailedRefreshReached ==
    /\ lastOp = "refresh:rejected"
    /\ isConfigured
    /\ walletBalance # Null

\* C7: on start an existing session-store entry takes the session directly to
\* Connected with no connect step run and a balance fetch started in the
\* background, whose failure leaves the session as it is; with no entry the
\* session starts Disconnected.
C7_RestoreIsOptimistic ==
    [][/\ (~mounted /\ mounted') =>
             IF sessionStorage # NoEntry
             THEN /\ isConfigured'
                  /\ apiService' # Null
                  /\ callLog' = <<>> /\ cfgPc' = "idle"
                  /\ \E call \in BagToSet(inflight') : call.origin = "restore"
             ELSE /\ ~isConfigured'
                  /\ inflight' = EmptyBag
       /\ lastOp' = "restore:rejected" => UNCHANGED <<isConfigured, apiService, sessionStorage>>
      ]_vars

C7_RestoredThenFetchFailed ==
    /\ lastOp = "restore:rejected"
    /\ isConfigured
    /\ walletBalance = Null

(***************************************************************************)
(* Chain / network auto-detection applied to a pair of values              *)
(***************************************************************************)
InitDetect ==
    /\ ToolsOff
    /\ SessionInit({NoEntry})
    /\ SyncOff
    /\ detPc = "input"
    /\ detChainID \in {JsNum(n) : n \in ChainIDValues}
    /\ detDiamond \in {JsStr(d) : d \in DiamondValues}
    /\ detResult = Null

\* configure step 3 on the drawn pair
DetectStep ==
    /\ detPc = "input"
    /\ detPc' = "done"
    /\ detResult' = AutoDetect(detChainID, detDiamond)
    /\ UNCHANGED <<detChainID, detDiamond, sessionVars, syncVars, toolVars>>

NextDetect == DetectStep

SpecDetect == InitDetect /\ [][NextDetect]_vars

\* two hex strings are equal up to the case of their letters
EqualIgnoringCase(a, b) ==
    /\ Len(a) = Len(b)
    /\ \A i \in DOMAIN a : UpperChar(a[i]) = UpperChar(b[i])

\* the four (chain id, diamond address) pairs and what each stands for
ExpectedDetection ==
    { [id |-> 42161, diamond |-> ArbMainnetDiamond, chain |-> "arbitrum", network |-> "mainnet"],
      [id |-> 421614, diamond |-> ArbTestnetDiamond, chain |-> "arbitrum", network |-> "testnet"],
      [id |-> 8453, diamond |-> BaseMainnetDiamond, chain |-> "base", network |-> "mainnet"],
      [id |-> 84532, diamond |-> BaseTestnetDiamond, chain |-> "base", network |-> "testnet"] }

\* C8: for each of the four table pairs, the address compared without regard
\* to case, detection returns that entry's chain and network; for every other
\* pair it fails with CHAIN_NOT_RECOGNIZED and yields no chain and no network.
C8_DetectionIsTheTable ==
    detPc = "done" =>
        LET hits == { e \in ExpectedDetection :
                        e.id = detChainID.n /\ EqualIgnoringCase(e.diamond, detDiamond.s) }
        IN  IF hits # {}
            THEN \A e \in hits :
                    detResult = [chain |-> e.chain, network |-> e.network, error |-> "none"]
            ELSE detResult = [chain |-> "null", network |-> "null",
                              error |-> "CHAIN_NOT_RECOGNIZED"]

C8_CaseInsensitiveMatchReached ==
    /\ detPc = "done"
    /\ detDiamond.s = toUpperCase(BaseTestnetDiamond)
    /\ detResult = [chain |-> "base", network |-> "testnet", error |-> "none"]

(***************************************************************************)
(* ModelConfigGenerator: reconciliation                                    *)
(***************************************************************************)
ModelIds == <<"0xA", "0xB", "0xC">>

ModelIdSet == {ModelIds[i] : i \in DOMAIN ModelIds}

SeqsUpTo(S, n) == UNION {[1..k -> S] : k \in 0..n}

\* an entry of GET /v1/models
LocalModelOf(id) ==
    [Id |-> id, Name |-> "local-" \o id, ApiType |-> "openai",
     ApiUrl |-> "http://local/" \o id, Slots |-> JsNum(4), CapacityPolicy |-> "simple"]

\* the answers of getLocalModels: lists of at most MaxLocal served models
LocalLists ==
    {[i \in DOMAIN ids |-> LocalModelOf(ids[i])] : ids \in SeqsUpTo(ModelIdSet, MaxLocal)}

\* the answers of getBids: lists of at most MaxBids active bids of the operator
BidLists ==
    {[i \in DOMAIN ids |-> [Id |-> "bid" \o ToString(i), ModelAgentId |-> ids[i]]] :
        ids \in SeqsUpTo(ModelIdSet, MaxBids)}

RegistryOf(S) ==
    LET In(id) == id \in S
        ids == SelectSeq(ModelIds, In)
    IN  [i \in DOMAIN ids |-> [Id |-> ids[i], Name |-> "chain-" \o ids[i]]]

\* the answers of getModels: the registry holds any subset of the model ids
Registries == {RegistryOf(S) : S \in SUBSET ModelIdSet}

\* Array.prototype.find on the Id field: the first element, or undefined
FindById(s, id) ==
    IF \E i \in DOMAIN s : s[i].Id = id
    THEN s[CHOOSE i \in DOMAIN s : s[i].Id = id /\ \A j \in DOMAIN s : s[j].Id = id => i <= j]
    ELSE Undefined

\* model?.Name || fallback
NameOr(model, fallback) ==
    IF model = Undefined THEN fallback ELSE OrElse(model.Name, fallback)

\* analyzeSyncStatus, first loop: one record per bid
BidRecords(local, bids, models) ==
    [i \in DOMAIN bids |->
        LET bid == bids[i]
            model == FindById(models, bid.ModelAgentId)
            localModel == FindById(local, bid.ModelAgentId)
        IN  [modelId |-> bid.ModelAgentId,
             modelName |-> NameOr(model, "Unknown Model"),
             onBlockchain |-> TRUE,
             onLocalNode |-> localModel # Undefined,
             bidExists |-> TRUE,
             needsConfiguration |-> localModel = Undefined,
             bidId |-> bid.Id]]

\* variant: the second loop does not skip the local models that have a bid
LocalRecords_unfiltered(local, bids, models) ==
    [i \in DOMAIN local |->
        LET model == FindById(models, local[i].Id)
        IN  [modelId |-> local[i].Id,
             modelName |-> NameOr(model, local[i].Name),
             onBlockchain |-> model # Undefined,
             onLocalNode |-> TRUE,
             bidExists |-> FALSE,
             needsConfiguration |-> FALSE,
             bidId |-> "undefined"]]

\* analyzeSyncStatus, second loop: one record per local model without a bid
LocalRecords(local, bids, models) ==
    LET NoBid(localModel) == ~\E i \in DOMAIN bids : bids[i].ModelAgentId = localModel.Id
        kept == SelectSeq(local, NoBid)
    IN  [i \in DOMAIN kept |->
            LET model == FindById(models, kept[i].Id)
            IN  [modelId |-> kept[i].Id,
                 modelName |-> NameOr(model, kept[i].Name),
                 onBlockchain |-> model # Undefined,
                 onLocalNode |-> TRUE,
                 bidExists |-> FALSE,
                 needsConfiguration |-> FALSE,
                 bidId |-> "undefined"]]

\* the status list analyzeSyncStatus passes to setSyncStatus
SyncStatusOf(local, bids, models) ==
    BidRecords(local, bids, models) \o LocalRecords(local, bids, models)

\* obj[key] = value on an object whose keys are model ids: an existing key
\* keeps its place, a new key is added last
ObjectSet(obj, key, value) ==
    IF \E i \in DOMAIN obj : obj[i].modelId = key
    THEN [i \in DOMAIN obj |-> IF obj[i].modelId = key THEN value ELSE obj[i]]
    ELSE Append(obj, value)

\* the entry analyzeSyncStatus creates for a model that needs configuration
DefaultConfigEntry(s) ==
    [modelId |-> s.modelId, modelName |-> s.modelName, apiType |-> "openai",
     apiUrl |-> "", apiKey |-> "", concurrentSlots |-> JsNum(8), capacityPolicy |-> "simple"]

\* the object analyzeSyncStatus passes to setModelConfigs
RECURSIVE ConfigsFrom(_, _)
ConfigsFrom(status, configs) ==
    IF status = <<>> THEN configs
    ELSE LET s == Head(status)
         IN  ConfigsFrom(Tail(status),
                         IF s.needsConfiguration
                         THEN ObjectSet(configs, s.modelId, DefaultConfigEntry(s))
                         ELSE configs)

\* the state after loadData has stored the three fetched collections
InitReconcile ==
    /\ ToolsOff
    /\ SessionInit({NoEntry})
    /\ DetectOff
    /\ syncPc = "fetched"
    /\ localModels \in LocalLists
    /\ blockchainBids \in BidLists
    /\ blockchainModels \in Registries
    /\ syncStatus = <<>>
    /\ modelConfigs = <<>>
    /\ showEnvOutput = FALSE
    /\ renderedOutput = [kind |-> "hidden"]
    /\ copyNotice = "none"

\* loadData's call of analyzeSyncStatus on what it fetched
AnalyzeSyncStatus ==
    /\ syncPc = "fetched"
    /\ syncPc' = "analyzed"
    /\ LET status == SyncStatusOf(localModels, blockchainBids, blockchainModels)
       IN  /\ syncStatus' = status
           /\ modelConfigs' = ConfigsFrom(status, <<>>)
    /\ UNCHANGED <<localModels, blockchainBids, blockchainModels, showEnvOutput,
                   renderedOutput, copyNotice, sessionVars, detectVars, toolVars>>

NextReconcile == AnalyzeSyncStatus

SpecReconcile == InitReconcile /\ [][NextReconcile]_vars

\* the positions of the local models no bid references, in list order
UnbidLocal ==
    LET NoBid(localModel) ==
            \A j \in DOMAIN blockchainBids : blockchainBids[j].ModelAgentId # localModel.Id
    IN  SelectSeq(localModels, NoBid)

\* C9: the status list is one record per active bid, in bid order, marked
\* onBlockchain and bidExists, onLocalNode exactly when a local model has the
\* bid's model id, needsConfiguration the opposite; then one record per local
\* model no bid references, in list order, marked onLocalNode, no bid, no
\* configuration needed; and nothing else.
C9_OneRecordPerBidThenPerUnbidLocal ==
    syncPc = "analyzed" =>
        /\ Len(syncStatus) = Len(blockchainBids) + Len(UnbidLocal)
        /\ \A i \in DOMAIN blockchainBids :
              LET served == \E k \in DOMAIN localModels :
                                localModels[k].Id = blockchainBids[i].ModelAgentId
              IN  /\ syncStatus[i].modelId = blockchainBids[i].ModelAgentId
                  /\ syncStatus[i].bidId = blockchainBids[i].Id
                  /\ syncStatus[i].onBlockchain
                  /\ syncStatus[i].bidExists
                  /\ syncStatus[i].onLocalNode = served
                  /\ syncStatus[i].needsConfiguration = ~served
        /\ \A i \in DOMAIN UnbidLocal :
              LET r == syncStatus[Len(blockchainBids) + i]
              IN  /\ r.modelId = UnbidLocal[i].Id
                  /\ r.onLocalNode
                  /\ ~r.bidExists
                  /\ ~r.needsConfiguration

\* local {A, B}, bids on {A, C}, registry {A, B, C}: A in sync, C needs
\* configuration, B has no bid
C9_ExampleReached ==
    /\ syncPc = "analyzed"
    /\ [i \in DOMAIN localModels |-> localModels[i].Id] = <<"0xA", "0xB">>
    /\ [i \in DOMAIN blockchainBids |-> blockchainBids[i].ModelAgentId] = <<"0xA", "0xC">>
    /\ Len(blockchainModels) = 3
    /\ Len(syncStatus) = 3
    /\ syncStatus[1].modelId = "0xA" /\ syncStatus[1].bidExists
         /\ syncStatus[1].onLocalNode /\ ~syncStatus[1].needsConfiguration
    /\ syncStatus[2].modelId = "0xC" /\ syncStatus[2].bidExists
         /\ ~syncStatus[2].onLocalNode /\ syncStatus[2].needsConfiguration
    /\ syncStatus[3].modelId = "0xB" /\ ~syncStatus[3].bidExists
         /\ syncStatus[3].onLocalNode /\ ~syncStatus[3].needsConfiguration

(***************************************************************************)
(* ModelConfigGenerator: the configuration form and the generated output   *)
(***************************************************************************)
SchemaUrl == "models-config-schema.json"

\* truthiness of a concurrentSlots value: '' and 0 are falsy
Falsy(v) == (v.t = "str" /\ v.s = <<>>) \/ (v.t = "num" /\ v.n = 0)

\* the validation loop of generateModelsConfigContent: the message of the
\* first entry that fails, or "none"
RECURSIVE ValidationError(_)
ValidationError(configs) ==
    IF configs = <<>> THEN "none"
    ELSE LET config == Head(configs)
         IN  IF config.apiUrl = ""
             THEN "API URL is required for " \o config.modelName
             ELSE IF Falsy(config.concurrentSlots)
                     \/ (config.concurrentSlots.t = "num" /\ config.concurrentSlots.n < 1)
             THEN "Concurrent Slots must be at least 1 for " \o config.modelName
             ELSE ValidationError(Tail(configs))

\* the entry pushed for an existing local model
LocalEntry(local) ==
    [modelId |-> local.Id, modelName |-> local.Name, apiType |-> local.ApiType,
     apiUrl |-> local.ApiUrl, concurrentSlots |-> local.Slots,
     capacityPolicy |-> local.CapacityPolicy]

\* the entry built from a form entry; apiKey is spread in only when non-empty
ConfigEntry(config) ==
    IF config.apiKey # ""
    THEN [modelId |-> config.modelId, modelName |-> config.modelName,
          apiType |-> config.apiType, apiUrl |-> config.apiUrl, apiKey |-> config.apiKey,
          concurrentSlots |-> config.concurrentSlots, capacityPolicy |-> config.capacityPolicy]
    ELSE [modelId |-> config.modelId, modelName |-> config.modelName,
          apiType |-> config.apiType, apiUrl |-> config.apiUrl,
          concurrentSlots |-> config.concurrentSlots, capacityPolicy |-> config.capacityPolicy]

\* allModels.findIndex((c) => c.modelId === id), 0 when there is none
FindIndex(allModels, id) ==
    IF \E i \in DOMAIN allModels : allModels[i].modelId = id
    THEN CHOOSE i \in DOMAIN allModels :
            /\ allModels[i].modelId = id
            /\ \A j \in DOMAIN allModels : allModels[j].modelId = id => i <= j
    ELSE 0

\* variant: every form entry is pushed, none replaces
RECURSIVE MergeConfigs_alwaysPush(_, _)
MergeConfigs_alwaysPush(allModels, configs) ==
    IF configs = <<>> THEN allModels
    ELSE MergeConfigs_alwaysPush(Append(allModels, ConfigEntry(Head(configs))), Tail(configs))

\* the second forEach of generateModelsConfigContent: replace the entry of
\* the same model id, or push
RECURSIVE MergeConfigs(_, _)
MergeConfigs(allModels, configs) ==
    IF configs = <<>> THEN allModels
    ELSE LET config == Head(configs)
             existingIndex == FindIndex(allModels, config.modelId)
         IN  MergeConfigs(IF existingIndex >= 1
                          THEN [allModels EXCEPT ![existingIndex] = ConfigEntry(config)]
                          ELSE Append(allModels, ConfigEntry(config)),
                          Tail(configs))

\* generateModelsConfigContent: the configObject both formats serialize, or
\* the error thrown by the validation
generateModelsConfigContent(local, configs) ==
    IF ValidationError(configs) # "none"
    THEN [kind |-> "thrown", message |-> ValidationError(configs)]
    ELSE [kind |-> "document", schema |-> SchemaUrl,
          models |-> MergeConfigs([i \in DOMAIN local |-> LocalEntry(local[i])], configs)]

\* the text between two entries, and before the first, of the fragment
Separator == [text |-> ",\n"]

\* models.map((model) => JSON.stringify(model, null, 4)).join(',\n')
RECURSIVE JoinJson(_)
JoinJson(models) ==
    IF models = <<>> THEN <<>>
    ELSE IF Len(models) = 1 THEN <<[json |-> models[1]]>>
    ELSE <<[json |-> Head(models)], Separator>> \o JoinJson(Tail(models))

\* generateNewModelsOnly: the pieces of the returned text in order
generateNewModelsOnly(configs) ==
    <<Separator>> \o JoinJson([i \in DOMAIN configs |-> ConfigEntry(configs[i])])

\* the output panel: rendered while showEnvOutput is set and the status list
\* is not empty; the "New Models Only" block is rendered when the form has
\* an entry; an error thrown by generateModelsConfigContent ends the render
Render(show, status, local, configs) ==
    IF ~show \/ status = <<>> THEN [kind |-> "hidden"]
    ELSE LET full == generateModelsConfigContent(local, configs)
         IN  IF full.kind = "thrown" THEN full
             ELSE [kind |-> "document", schema |-> full.schema, models |-> full.models,
                   newModelsOnly |-> IF configs # <<>> THEN generateNewModelsOnly(configs)
                                     ELSE <<>>]

\* syncStatus.filter((s) => s.needsConfiguration)
modelsNeedingConfig ==
    LET Needs(st) == st.needsConfiguration
    IN  SelectSeq(syncStatus, Needs)

\* modelConfigs[modelId], undefined when the key is absent
ConfigOf(configs, modelId) ==
    IF \E i \in DOMAIN configs : configs[i].modelId = modelId
    THEN configs[CHOOSE i \in DOMAIN configs : configs[i].modelId = modelId]
    ELSE Undefined

FullRegistry == RegistryOf(ModelIdSet)

\* the lists the node serves while the form is used: models of distinct ids
\* in any order, and one list that names a model twice
ServedLists ==
    {local \in LocalLists :
        \A i, j \in DOMAIN local : local[i].Id = local[j].Id => i = j}
      \cup {<<LocalModelOf("0xA"), LocalModelOf("0xA")>>}

\* the active bids of the operator while the form is used: bids on distinct
\* models, and one list with two bids on the same model
OperatorBids ==
    LET BidsOn(ids) == [i \in DOMAIN ids |->
                          [Id |-> "bid" \o ToString(i), ModelAgentId |-> ids[i]]]
        Ordered(S) == LET In(id) == id \in S IN SelectSeq(ModelIds, In)
    IN  {BidsOn(Ordered(S)) : S \in {T \in SUBSET ModelIdSet : Cardinality(T) <= MaxBids}}
          \cup {BidsOn(<<"0xA", "0xA">>)}

\* the component after the loadData of its mount effect has succeeded
InitGenerate ==
    /\ ToolsOff
    /\ SessionConnected
    /\ DetectOff
    /\ syncPc = "form"
    /\ localModels \in ServedLists
    /\ blockchainBids \in OperatorBids
    /\ blockchainModels = FullRegistry
    /\ syncStatus = SyncStatusOf(localModels, blockchainBids, blockchainModels)
    /\ modelConfigs = ConfigsFrom(syncStatus, <<>>)
    /\ showEnvOutput = FALSE
    /\ renderedOutput = [kind |-> "hidden"]
    /\ copyNotice = "none"

\* the values the form's inputs hand to updateModelConfig
FieldValues(field) ==
    CASE field = "apiUrl" -> {"", "http://new/v1"}
      [] field = "concurrentSlots" -> {JsStr(<<>>), JsNum(0), JsNum(8)}

\* updateModelConfig from an input of the form, then the re-render; an error
\* thrown while rendering takes the component down
UpdateModelConfig(i, field, value) ==
    /\ syncPc = "form"
    /\ renderedOutput.kind # "thrown"
    /\ i \in DOMAIN modelsNeedingConfig
    /\ LET modelId == modelsNeedingConfig[i].modelId
           prev == ConfigOf(modelConfigs, modelId)
       IN  /\ prev # Undefined
           /\ modelConfigs' = ObjectSet(modelConfigs, modelId, [prev EXCEPT ![field] = value])
    /\ renderedOutput' = Render(showEnvOutput, syncStatus, localModels, modelConfigs')
    /\ UNCHANGED <<syncPc, localModels, blockchainBids, blockchainModels, syncStatus,
                   showEnvOutput, copyNotice, sessionVars, detectVars, toolVars>>

\* the Generate button: disabled while a model that needs configuration has
\* no API URL
ClickGenerate ==
    /\ syncPc = "form"
    /\ renderedOutput.kind # "thrown"
    /\ Len(modelsNeedingConfig) > 0
    /\ ~\E i \in DOMAIN modelsNeedingConfig :
           LET config == ConfigOf(modelConfigs, modelsNeedingConfig[i].modelId)
           IN  config = Undefined \/ config.apiUrl = ""
    /\ showEnvOutput' = TRUE
    /\ renderedOutput' = Render(TRUE, syncStatus, localModels, modelConfigs)
    /\ UNCHANGED <<syncPc, localModels, blockchainBids, blockchainModels, syncStatus,
                   modelConfigs, copyNotice, sessionVars, detectVars, toolVars>>

\* handleCopyConfig from a copy button of the output panel
HandleCopyConfig ==
    /\ syncPc = "form"
    /\ showEnvOutput
    /\ renderedOutput.kind # "thrown"
    /\ copyNotice' = IF generateModelsConfigContent(localModels, modelConfigs).kind = "thrown"
                     THEN "Validation Error" ELSE "Copied!"
    /\ UNCHANGED <<syncPc, localModels, blockchainBids, blockchainModels, syncStatus,
                   modelConfigs, showEnvOutput, renderedOutput, sessionVars, detectVars, toolVars>>

\* the requests of loadData in the order it awaits them
LoadRequests == <<"getLocalModels", "getBids", "getModels">>

\* loadData from the refresh button, while the node serves the list local
\* and the chain holds the same bids and models as before; failsAt is the
\* request that rejects, 0 when none does.  What precedes the rejected
\* request has been stored, analyzeSyncStatus runs only when nothing failed.
LoadData(local, failsAt) ==
    /\ syncPc = "form"
    /\ renderedOutput.kind # "thrown"
    /\ apiService # Null /\ walletBalance # Null
    /\ localModels' = IF failsAt = 1 THEN localModels ELSE local
    /\ UNCHANGED <<blockchainBids, blockchainModels>>
    /\ IF failsAt = 0
       THEN /\ syncStatus' = SyncStatusOf(local, blockchainBids, blockchainModels)
            /\ modelConfigs' = ConfigsFrom(syncStatus', <<>>)
            /\ UNCHANGED copyNotice
       ELSE /\ copyNotice' = "Failed to Load"
            /\ UNCHANGED <<syncStatus, modelConfigs>>
    /\ renderedOutput' = Render(showEnvOutput, syncStatus', localModels', modelConfigs')
    /\ UNCHANGED <<syncPc, showEnvOutput, sessionVars, detectVars, toolVars>>

NextGenerate ==
    \/ \E i \in 1..MaxBids, field \in {"apiUrl", "concurrentSlots"} :
          \E value \in FieldValues(field) : UpdateModelConfig(i, field, value)
    \/ ClickGenerate
    \/ HandleCopyConfig
    \/ \E local \in ServedLists, failsAt \in {0} \cup DOMAIN LoadRequests :
          LoadData(local, failsAt)

SpecGenerate == InitGenerate /\ [][NextGenerate]_vars

IdsOf(entries) == {entries[i].modelId : i \in DOMAIN entries}

DistinctLocalIds ==
    \A i, j \in DOMAIN localModels : localModels[i].Id = localModels[j].Id => i = j

\* C10: the full document holds an entry for every local model id and for
\* every configured model id and for no other; the entry of a configured
\* model is the one built from the form, also when a local model has the
\* same id; with distinct local ids no model id occurs twice.
C10_FullDocumentMergesLastWriteWins ==
    renderedOutput.kind = "document" =>
        LET out == renderedOutput.models
        IN  /\ IdsOf(out) = {localModels[i].Id : i \in DOMAIN localModels} \cup IdsOf(modelConfigs)
            /\ \A k \in DOMAIN modelConfigs :
                  \E i \in DOMAIN out :
                     /\ out[i].modelId = modelConfigs[k].modelId
                     /\ out[i].apiUrl = modelConfigs[k].apiUrl
                     /\ out[i].concurrentSlots = modelConfigs[k].concurrentSlots
            /\ DistinctLocalIds =>
                  /\ \A i, j \in DOMAIN out : out[i].modelId = out[j].modelId => i = j
                  /\ \A k \in DOMAIN localModels :
                        localModels[k].Id \notin IdsOf(modelConfigs) =>
                           \E i \in DOMAIN out : out[i] = LocalEntry(localModels[k])

\* a document in which a configured model replaced the local model of its id
C10_ReplacementReached ==
    /\ renderedOutput.kind = "document"
    /\ DistinctLocalIds
    /\ Len(localModels) = 2
    /\ \E k \in DOMAIN modelConfigs, i \in DOMAIN localModels :
          /\ modelConfigs[k].modelId = localModels[i].Id
          /\ renderedOutput.models[i].apiUrl = modelConfigs[k].apiUrl
    /\ \E k \in DOMAIN modelConfigs :
          \A i \in DOMAIN localModels : modelConfigs[k].modelId # localModels[i].Id

\* the entries of a fragment, without the text between them
JsonEntries(fragment) ==
    LET IsJson(piece) == "json" \in DOMAIN piece
        Value(piece) == piece.json
        pieces == SelectSeq(fragment, IsJson)
    IN  [i \in DOMAIN pieces |-> pieces[i].json]

\* C11: the incremental fragment starts with the separating comma, holds
\* exactly one entry for each model configured in the form and no other, and
\* holds no entry for a model of the local list.
C11_FragmentHoldsOnlyNewModels ==
    (renderedOutput.kind = "document" /\ modelConfigs # <<>>) =>
        LET fragment == renderedOutput.newModelsOnly
            entries == JsonEntries(fragment)
        IN  /\ fragment[1] = Separator
            /\ \A k \in DOMAIN modelConfigs :
                  Cardinality({i \in DOMAIN entries :
                                  entries[i].modelId = modelConfigs[k].modelId}) = 1
            /\ IdsOf(entries) = IdsOf(modelConfigs)
            /\ \A i \in DOMAIN entries, k \in DOMAIN localModels :
                  entries[i].modelId # localModels[k].Id

(***************************************************************************)
(* NotificationProvider: the notification queue                            *)
(***************************************************************************)
\* the values Math.random().toString(36).substring(7) takes in a run
NotificationIds == {"n1", "n2", "n3"}

\* the calls made on the provider: error(title, message), which passes a
\* duration of 7000, and showNotification with a duration of 0
ShownNotifications ==
    {[type |-> "error", title |-> "Failed to Load", message |-> "Network Error",
      duration |-> 7000],
     [type |-> "info", title |-> "Note", message |-> "kept until dismissed",
      duration |-> 0]}

InitNotify ==
    /\ FormOff
    /\ SessionInit({NoEntry})
    /\ DetectOff
    /\ SyncOff
    /\ ClientOff
    /\ ParseOff
    /\ ProbeOff
    /\ TabOff
    /\ NotifyOff

\* prev.filter((n) => n.id !== id)
WithoutId(queue, id) ==
    LET Keep(n) == n.id # id
    IN  SelectSeq(queue, Keep)

\* variant: a notification equal in type, title and message to a queued one
\* is not added again
ShowNotification_deduplicating(shown, id) ==
    /\ Len(notifications) < MaxShown
    /\ BagCardinality(timers) < MaxShown
    /\ LET notification == [id |-> id, type |-> shown.type, title |-> shown.title,
                            message |-> shown.message, duration |-> shown.duration]
           Queued == \E i \in DOMAIN notifications :
                        /\ notifications[i].type = shown.type
                        /\ notifications[i].title = shown.title
                        /\ notifications[i].message = shown.message
       IN  /\ notifications' = IF Queued THEN notifications
                                ELSE Append(notifications, notification)
           /\ timers' = IF shown.duration > 0 THEN timers (+) SetToBag({id}) ELSE timers
    /\ notifyOp' = [op |-> "showNotification", id |-> id]
    /\ UNCHANGED outsideNotify

\* showNotification(type, title, message, duration), id being what
\* Math.random produced
ShowNotification(shown, id) ==
    /\ Len(notifications) < MaxShown
    /\ BagCardinality(timers) < MaxShown
    /\ LET notification == [id |-> id, type |-> shown.type, title |-> shown.title,
                            message |-> shown.message, duration |-> shown.duration]
       IN  /\ notifications' = Append(notifications, notification)
           /\ timers' = IF shown.duration > 0 THEN timers (+) SetToBag({id}) ELSE timers
    /\ notifyOp' = [op |-> "showNotification", id |-> id]
    /\ UNCHANGED outsideNotify

\* dismissNotification(id) from the close button of a shown notification
DismissNotification(id) ==
    /\ \E i \in DOMAIN notifications : notifications[i].id = id
    /\ notifications' = WithoutId(notifications, id)
    /\ notifyOp' = [op |-> "dismissNotification", id |-> id]
    /\ UNCHANGED <<timers, outsideNotify>>

\* a callback that clears its timer and leaves the queue alone
TimerFires_keepsQueue(id) ==
    /\ BagIn(id, timers)
    /\ timers' = timers (-) SetToBag({id})
    /\ notifyOp' = [op |-> "timeout", id |-> id]
    /\ UNCHANGED <<notifications, outsideNotify>>

\* the setTimeout callback of a showNotification: dismissNotification(id)
TimerFires(id) ==
    /\ BagIn(id, timers)
    /\ timers' = timers (-) SetToBag({id})
    /\ notifications' = WithoutId(notifications, id)
    /\ notifyOp' = [op |-> "timeout", id |-> id]
    /\ UNCHANGED outsideNotify

NextNotify ==
    \/ \E shown \in ShownNotifications, id \in NotificationIds : ShowNotification(shown, id)
    \/ \E id \in NotificationIds : DismissNotification(id)
    \/ \E id \in NotificationIds : TimerFires(id)

SpecNotify == InitNotify /\ [][NextNotify]_vars

QueuedIds(queue) == {queue[i].id : i \in DOMAIN queue}

\* C12: showNotification adds one notification at the tail and leaves the
\* queued ones as they are, also when an equal one is queued;
\* dismissNotification(id) removes what carries that id and keeps the others
\* in their order; for an id that is not queued it changes nothing.
C12_QueueAppendsAndDismissesById ==
    [][/\ notifyOp'.op = "showNotification" =>
            /\ Len(notifications') = Len(notifications) + 1
            /\ SubSeq(notifications', 1, Len(notifications)) = notifications
            /\ notifications'[Len(notifications')].id = notifyOp'.id
       /\ notifyOp'.op \in {"dismissNotification", "timeout"} =>
            /\ notifyOp'.id \notin QueuedIds(notifications')
            /\ \E kept \in SUBSET DOMAIN notifications :
                  /\ kept = {i \in DOMAIN notifications : notifications[i].id # notifyOp'.id}
                  /\ Len(notifications') = Cardinality(kept)
                  /\ \A i \in kept :
                        notifications'[Cardinality({j \in kept : j <= i})] = notifications[i]
            /\ notifyOp'.id \notin QueuedIds(notifications) =>
                  notifications' = notifications]_vars

\* two notifications equal in all but their ids are queued, and a timer has
\* just fired for an id that was no longer queued
C12_EqualQueuedAndStaleDismissReached ==
    /\ Len(notifications) = 2
    /\ notifications[1].id # notifications[2].id
    /\ [notifications[1] EXCEPT !.id = ""] = [notifications[2] EXCEPT !.id = ""]
    /\ notifyOp.op = "timeout"
    /\ notifyOp.id \notin QueuedIds(notifications)

(***************************************************************************)
(* ApiService: operations against a node                                   *)
(***************************************************************************)
\* the page size of getBidsForModel and the limit getBids passes
BATCH_SIZE == 255

\* what a request of the client rejects with: an AxiosError without a
\* response, and one with the body of a non-2xx answer
NetworkError ==
    [isAxiosError |-> TRUE, isError |-> TRUE, message |-> "Network Error",
     data |-> [kind |-> "none"]]

RemoteRejection ==
    [isAxiosError |-> TRUE, isError |-> TRUE,
     message |-> "Request failed with status code 500",
     data |-> [kind |-> "body", error |-> "insufficient stake", message |-> "absent"]]

TransportErrors == {NetworkError, RemoteRejection}

\* numbers of active bids the queried node holds: none, one, a page less one,
\* full pages, and full pages followed by a partial page
NodeBidCounts ==
    {0, 1, BATCH_SIZE - 1}
      \cup {k * BATCH_SIZE : k \in 1..MaxPages}
      \cup {k * BATCH_SIZE + 45 : k \in 1..MaxPages}

\* the bids a paginated endpoint serves for limit and offset, in ascending
\* order; a bid is named by its position
PageOf(total, limit, offset) ==
    LET count == IF total - offset < 0 THEN 0
                 ELSE IF total - offset < limit THEN total - offset ELSE limit
    IN  [i \in 1..count |-> offset + i]

\* response.data.<field> || []
FieldOrEmpty(data, field) == IF field \in DOMAIN data THEN data[field] ELSE <<>>

\* the answers of a bids endpoint: { bids: [...] }, or a body without the
\* field when there is nothing to list
BidsAnswers(total, limit, offset) ==
    LET page == PageOf(total, limit, offset)
    IN  {[bids |-> page]} \cup (IF page = <<>> THEN {[total |-> 0]} ELSE {})

WalletAddress == <<"0", "x", "A", "b">>

\* the providers a node lists: the wallet's own entry written in another
\* letter case, with and without an endpoint, deleted or not, and a stranger
ProviderOf(address, endpoint, deleted) ==
    [Address |-> address, Endpoint |-> endpoint, IsDeleted |-> deleted]

ProvidersAnswers ==
    {[providers |-> <<ProviderOf(<<"0", "x", "C", "d">>, "other:3333", FALSE)>>],
     [providers |-> <<ProviderOf(<<"0", "x", "C", "d">>, "other:3333", FALSE),
                      ProviderOf(<<"0", "x", "a", "B">>, "mine:3333", FALSE)>>],
     [providers |-> <<ProviderOf(<<"0", "x", "a", "B">>, "", FALSE)>>],
     [providers |-> <<ProviderOf(<<"0", "x", "a", "B">>, "mine:3333", TRUE)>>],
     [total |-> 0]}

ModelsAnswers == {[models |-> FullRegistry], [total |-> 0]}

\* the bodies GET /v1/models can answer with: an array, or no collection at
\* all (the JSON null, an empty body that axios hands over as '')
LocalModelsAnswers ==
    {[typeof |-> "array", items |-> <<>>],
     [typeof |-> "array", items |-> <<LocalModelOf("0xA"), LocalModelOf("0xB")>>],
     [typeof |-> "null", items |-> <<>>],
     [typeof |-> "string", items |-> <<>>]}

ApiOperations ==
    {"getBids", "getBidsForModel", "getProviderStatus", "getModels", "getProviders",
     "getLocalModels"}

InitClient ==
    /\ FormOff
    /\ SessionInit({NoEntry})
    /\ DetectOff
    /\ SyncOff
    /\ NotifyOff
    /\ ParseOff
    /\ ProbeOff
    /\ TabOff
    /\ apiPc = "idle"
    /\ apiOp = "none"
    /\ apiAddress = Undefined
    /\ apiOffset = 0
    /\ allBids = <<>>
    /\ apiRequests = <<>>
    /\ apiResult = [kind |-> "none"]
    /\ nodeBidCount \in NodeBidCounts

\* an entry of the request log
Issued(path, outcome, length) == [path |-> path, outcome |-> outcome, length |-> length]

\* a call of one of the operations: it runs up to its first await
CallOperation(op) ==
    /\ apiPc \in {"idle", "settled"}
    /\ apiOp' = op
    /\ apiPc' = CASE op = "getBids" -> "/wallet"
                   [] op = "getProviderStatus" -> "/wallet"
                   [] op = "getBidsForModel" -> "/blockchain/models/{id}/bids/active"
                   [] op = "getModels" -> "/blockchain/models"
                   [] op = "getProviders" -> "/blockchain/providers"
                   [] op = "getLocalModels" -> "/v1/models"
    /\ apiAddress' = Undefined
    /\ apiOffset' = 0
    /\ allBids' = <<>>
    /\ apiRequests' = <<>>
    /\ apiResult' = [kind |-> "pending"]
    /\ UNCHANGED <<nodeBidCount, outsideClient>>

\* GET /wallet answers: getBids and getProviderStatus go on to their second
\* request
WalletAnswers ==
    /\ apiPc = "/wallet"
    /\ apiAddress' = WalletAddress
    /\ apiRequests' = Append(apiRequests, Issued("/wallet", "answered", 0))
    /\ apiPc' = IF apiOp = "getBids" THEN "/blockchain/providers/{address}/bids/active"
                ELSE "/blockchain/providers"
    /\ UNCHANGED <<apiOp, apiOffset, allBids, apiResult, nodeBidCount, outsideClient>>

\* the request of getBids for the provider's active bids answers: limit 255,
\* offset 0, and the operation returns response.data.bids || []
ProviderBidsAnswer(data) ==
    /\ apiPc = "/blockchain/providers/{address}/bids/active"
    /\ data \in BidsAnswers(nodeBidCount, 255, 0)
    /\ LET bids == FieldOrEmpty(data, "bids")
       IN  /\ apiRequests' = Append(apiRequests, Issued(apiPc, "answered", Len(bids)))
           /\ apiResult' = [kind |-> "resolved", value |-> bids]
    /\ apiPc' = "settled"
    /\ UNCHANGED <<apiOp, apiAddress, apiOffset, allBids, nodeBidCount, outsideClient>>

\* a loop that goes on until a page comes back empty
ModelBidsAnswer_untilEmpty(data) ==
    /\ apiPc = "/blockchain/models/{id}/bids/active"
    /\ data \in BidsAnswers(nodeBidCount, BATCH_SIZE, apiOffset)
    /\ LET bids == FieldOrEmpty(data, "bids")
       IN  /\ apiRequests' = Append(apiRequests, Issued(apiPc, "answered", Len(bids)))
           /\ allBids' = allBids \o bids
           /\ IF Len(bids) = 0
              THEN /\ apiResult' = [kind |-> "resolved", value |-> allBids']
                   /\ apiPc' = "settled"
                   /\ UNCHANGED apiOffset
              ELSE /\ apiOffset' = apiOffset + BATCH_SIZE
                   /\ UNCHANGED <<apiResult, apiPc>>
    /\ UNCHANGED <<apiOp, apiAddress, nodeBidCount, outsideClient>>

\* a request of getBidsForModel answers: the page is pushed, a short page
\* ends the loop
ModelBidsAnswer(data) ==
    /\ apiPc = "/blockchain/models/{id}/bids/active"
    /\ data \in BidsAnswers(nodeBidCount, BATCH_SIZE, apiOffset)
    /\ LET bids == FieldOrEmpty(data, "bids")
       IN  /\ apiRequests' = Append(apiRequests, Issued(apiPc, "answered", Len(bids)))
           /\ allBids' = allBids \o bids
           /\ IF Len(bids) < BATCH_SIZE
              THEN /\ apiResult' = [kind |-> "resolved", value |-> allBids']
                   /\ apiPc' = "settled"
                   /\ UNCHANGED apiOffset
              ELSE /\ apiOffset' = apiOffset + BATCH_SIZE
                   /\ UNCHANGED <<apiResult, apiPc>>
    /\ UNCHANGED <<apiOp, apiAddress, nodeBidCount, outsideClient>>

\* providers.find((p) => p.Address.toLowerCase() === address.toLowerCase()
\* && !p.IsDeleted): the position of the first match, 0 when there is none
FindProvider(providers, address) ==
    LET Matches(i) == /\ toLowerCase(providers[i].Address) = toLowerCase(address)
                      /\ ~providers[i].IsDeleted
    IN  IF \E i \in DOMAIN providers : Matches(i)
        THEN CHOOSE i \in DOMAIN providers :
                Matches(i) /\ \A j \in DOMAIN providers : Matches(j) => i <= j
        ELSE 0

\* GET /blockchain/providers answers: getProviders returns
\* response.data.providers || [], getProviderStatus builds its result
ProvidersAnswer(data) ==
    /\ apiPc = "/blockchain/providers"
    /\ LET providers == FieldOrEmpty(data, "providers")
           found == FindProvider(providers, apiAddress)
       IN  /\ apiRequests' = Append(apiRequests, Issued(apiPc, "answered", Len(providers)))
           /\ apiResult' =
                [kind |-> "resolved",
                 value |-> IF apiOp = "getProviders" THEN providers
                           ELSE IF found = 0
                           THEN [isRegistered |-> FALSE, hasEndpoint |-> FALSE]
                           ELSE [isRegistered |-> TRUE, provider |-> providers[found],
                                 hasEndpoint |-> providers[found].Endpoint # ""]]
    /\ apiPc' = "settled"
    /\ UNCHANGED <<apiOp, apiAddress, apiOffset, allBids, nodeBidCount, outsideClient>>

\* GET /blockchain/models answers: getModels returns response.data.models || []
ModelsAnswer(data) ==
    /\ apiPc = "/blockchain/models"
    /\ LET models == FieldOrEmpty(data, "models")
       IN  /\ apiRequests' = Append(apiRequests, Issued(apiPc, "answered", Len(models)))
           /\ apiResult' = [kind |-> "resolved", value |-> models]
    /\ apiPc' = "settled"
    /\ UNCHANGED <<apiOp, apiAddress, apiOffset, allBids, nodeBidCount, outsideClient>>

\* GET /v1/models answers: getLocalModels returns response.data as it is
LocalModelsAnswer(data) ==
    /\ apiPc = "/v1/models"
    /\ apiRequests' = Append(apiRequests, Issued(apiPc, "answered", Len(data.items)))
    /\ apiResult' = [kind |-> "resolved", value |-> data.items, typeof |-> data.typeof]
    /\ apiPc' = "settled"
    /\ UNCHANGED <<apiOp, apiAddress, apiOffset, allBids, nodeBidCount, outsideClient>>

\* the awaited request rejects: getBidsForModel catches the error and returns
\* what it has collected, the other operations reject with it
RequestFails(error) ==
    /\ apiPc \notin {"off", "idle", "settled"}
    /\ apiRequests' = Append(apiRequests, Issued(apiPc, "failed", 0))
    /\ apiResult' = IF apiOp = "getBidsForModel"
                    THEN [kind |-> "resolved", value |-> allBids]
                    ELSE [kind |-> "rejected", reason |-> error]
    /\ apiPc' = "settled"
    /\ UNCHANGED <<apiOp, apiAddress, apiOffset, allBids, nodeBidCount, outsideClient>>

NextClient ==
    \/ \E op \in ApiOperations : CallOperation(op)
    \/ WalletAnswers
    \/ \E data \in BidsAnswers(nodeBidCount, 255, 0) : ProviderBidsAnswer(data)
    \/ \E data \in BidsAnswers(nodeBidCount, BATCH_SIZE, apiOffset) : ModelBidsAnswer(data)
    \/ \E data \in ProvidersAnswers : ProvidersAnswer(data)
    \/ \E data \in ModelsAnswers : ModelsAnswer(data)
    \/ \E data \in LocalModelsAnswers : LocalModelsAnswer(data)
    \/ \E error \in TransportErrors : RequestFails(error)

SpecClient == InitClient /\ [][NextClient]_vars

\* the requests of the log that were answered with fewer bids than the page size
ShortPages ==
    {i \in DOMAIN apiRequests :
        /\ apiRequests[i].outcome = "answered"
        /\ apiRequests[i].path # "/wallet"
        /\ apiRequests[i].length < BATCH_SIZE}

\* C13: a getBids call that no request failed has asked /wallet first and
\* the provider's active bids after it, returns as many bids as the node
\* holds, and exactly one of its requests, the last, was answered with a
\* short page.
C13_GetBidsCollectsAllPages ==
    (apiOp = "getBids" /\ apiResult.kind = "resolved") =>
        /\ apiRequests[1].path = "/wallet"
        /\ \A i \in 2..Len(apiRequests) :
              apiRequests[i].path = "/blockchain/providers/{address}/bids/active"
        /\ Len(apiResult.value) = nodeBidCount
        /\ ShortPages = {Len(apiRequests)}

\* C14: when a request of an operation fails, the promise the operation
\* returned is rejected with the error and its message, and is never
\* resolved with a list.
C14_FailedRequestRejects ==
    (apiPc = "settled" /\ \E i \in DOMAIN apiRequests : apiRequests[i].outcome = "failed") =>
        /\ apiResult.kind = "rejected"
        /\ apiResult.reason.message # ""

(***************************************************************************)
(* ApiService.parseError                                                   *)
(***************************************************************************)
\* a || b on strings: a missing field and '' are falsy
Truthy(text) == text # "absent" /\ text # ""

\* parseError: error.response?.data is a body or missing; error and message
\* are the body's fields, "absent" when the body has none
parseError(error) ==
    IF error.isAxiosError /\ error.data.kind = "body"
    THEN IF Truthy(error.data.error) THEN error.data.error
         ELSE IF Truthy(error.data.message) THEN error.data.message
         ELSE "API request failed"
    ELSE IF error.isAxiosError /\ error.message # "" THEN error.message
    ELSE IF error.isError THEN error.message
    ELSE "An unknown error occurred"

\* the values a catch block hands to parseError: AxiosErrors with and without
\* a response body, other Errors, and thrown values that are no Error
CaughtValues ==
    {e \in [isAxiosError : BOOLEAN, isError : BOOLEAN,
            message : {"", "Network Error", "Request failed with status code 500"},
            data : {[kind |-> "none"]}
                     \cup [kind : {"body"},
                           error : {"absent", "", "insufficient stake", "provider not found"},
                           message : {"absent", "", "model has active bids", "bad request"}]] :
        \* an AxiosError is an Error; only an AxiosError carries a response
        /\ e.isAxiosError => e.isError
        /\ e.data.kind = "body" => e.isAxiosError}

InitParse ==
    /\ FormOff
    /\ SessionInit({NoEntry})
    /\ DetectOff
    /\ SyncOff
    /\ NotifyOff
    /\ ClientOff
    /\ ProbeOff
    /\ TabOff
    /\ parsePc = "input"
    /\ parseInput \in CaughtValues
    /\ parseOutput = ""

ParseStep ==
    /\ parsePc = "input"
    /\ parsePc' = "done"
    /\ parseOutput' = parseError(parseInput)
    /\ UNCHANGED <<parseInput, outsideParse>>

NextParse == ParseStep

SpecParse == InitParse /\ [][NextParse]_vars

\* C20: the message extracted from a failed request is the body's error
\* field if the body has one, otherwise its message field if it has one,
\* otherwise the message of the transport error.
C20_MessageFromBodyElseTransport ==
    (parsePc = "done" /\ parseInput.isAxiosError) =>
        parseOutput =
            IF parseInput.data.kind = "body" /\ Truthy(parseInput.data.error)
            THEN parseInput.data.error
            ELSE IF parseInput.data.kind = "body" /\ Truthy(parseInput.data.message)
            THEN parseInput.data.message
            ELSE parseInput.message

(***************************************************************************)
(* ApiService.checkEndpointReachability                                    *)
(***************************************************************************)
\* texts are sequences of characters
IsDigit(c) == \E i \in DOMAIN DigitChars : DigitChars[i] = c

DigitValue(c) == (CHOOSE i \in DOMAIN DigitChars : DigitChars[i] = c) - 1

\* the number of digits text starts with
RECURSIVE LeadingDigits(_)
LeadingDigits(text) ==
    IF text # <<>> /\ IsDigit(Head(text)) THEN 1 + LeadingDigits(Tail(text)) ELSE 0

\* the value of a sequence of digits
RECURSIVE DigitsValue(_)
DigitsValue(digits) ==
    IF digits = <<>> THEN 0
    ELSE 10 * DigitsValue(SubSeq(digits, 1, Len(digits) - 1))
         + DigitValue(digits[Len(digits)])

NaN == [nan |-> TRUE, n |-> 0]

\* parseInt(text, 10): an optional sign and the leading digits; NaN without digits
parseInt(text) ==
    LET signed == text # <<>> /\ text[1] \in {"-", "+"}
        body == IF signed THEN Tail(text) ELSE text
        n == LeadingDigits(body)
        value == DigitsValue(SubSeq(body, 1, n))
    IN  IF n = 0 THEN NaN
        ELSE [nan |-> FALSE, n |-> IF signed /\ text[1] = "-" THEN 0 - value ELSE value]

\* text.split(sep) for a separator of one character
RECURSIVE Split(_, _)
Split(text, sep) ==
    IF \A i \in DOMAIN text : text[i] # sep THEN <<text>>
    ELSE LET at == CHOOSE i \in DOMAIN text :
                       text[i] = sep /\ \A j \in 1..(i - 1) : text[j] # sep
         IN  <<SubSeq(text, 1, at - 1)>> \o Split(SubSeq(text, at + 1, Len(text)), sep)

\* text.includes(part)
Includes(text, part) ==
    \E i \in 1..(Len(text) - Len(part) + 1) : SubSeq(text, i, i + Len(part) - 1) = part

\* /^(\d{1,3}\.){3}\d{1,3}$/.test(host)
IsIpAddress(host) ==
    LET groups == Split(host, ".")
    IN  /\ Len(groups) = 4
        /\ \A i \in DOMAIN groups :
              /\ Len(groups[i]) \in 1..3
              /\ LeadingDigits(groups[i]) = Len(groups[i])

ProbedEndpoints ==
    {<<"n", "o", "d", "e", ":", "3", "3", "3", "3">>,
     <<"m", "y", ".", "n", "o", "d", "e", ":", "8", "0", "x">>,
     <<"1", "0", ".", "0", ".", "0", ".", "1", ":", "3", "3", "3", "3">>,
     <<"n", "o", "d", "e">>,
     <<"n", "o", "d", "e", ":", "0">>,
     <<"n", "o", "d", "e", ":", "x">>,
     <<"a", ":", "b", ":", "c">>,
     <<"n", "o", "d", "e", ":", "7", "0", "0", "0", "0">>}

\* what the endpoint is rejected with before any request, "" when it is well formed
EndpointFault(endpoint) ==
    LET parts == Split(endpoint, ":")
        port == parseInt(parts[2])
    IN  IF Len(parts) # 2 THEN "Invalid endpoint format. Expected: hostname:port or ip:port"
        ELSE IF port.nan \/ port.n < 1 \/ port.n > 65535
        THEN "Invalid port number. Must be between 1 and 65535"
        ELSE ""

HostOf(endpoint) == Split(endpoint, ":")[1]

\* how the DNS-over-HTTPS lookup can end
DnsOutcomes ==
    {[kind |-> "answer", ip |-> <<"2", "0", "3", ".", "0", ".", "1", "1", "3", ".", "7">>],
     [kind |-> "no-records", ip |-> <<>>], [kind |-> "not-ok", ip |-> <<>>],
     [kind |-> "threw", ip |-> <<>>]}

Msg_FailedToFetch == <<"F", "a", "i", "l", "e", "d", " ", "t", "o", " ", "f", "e", "t", "c", "h">>
Msg_NetworkError == <<"N", "e", "t", "w", "o", "r", "k", "E", "r", "r", "o", "r", " ", "w", "h", "e", "n", " ", "a", "t", "t", "e", "m", "p", "t", "i", "n", "g", " ", "t", "o", " ", "f", "e", "t", "c", "h", " ", "r", "e", "s", "o", "u", "r", "c", "e", ".">>
Msg_LoadFailed == <<"L", "o", "a", "d", " ", "f", "a", "i", "l", "e", "d">>
Msg_Refused == <<"n", "e", "t", ":", ":", "E", "R", "R", "_", "C", "O", "N", "N", "E", "C", "T", "I", "O", "N", "_", "R", "E", "F", "U", "S", "E", "D">>
Msg_Boom == <<"b", "o", "o", "m">>
Msg_Aborted == <<"T", "h", "e", " ", "u", "s", "e", "r", " ", "a", "b", "o", "r", "t", "e", "d", " ", "a", " ", "r", "e", "q", "u", "e", "s", "t", ".">>

\* how fetch(`http://${endpoint}/`) can end: a response, the abort of the
\* 5 s timer, a TypeError of the browser, another Error, or a thrown value
\* that is no Error; elapsed is Date.now() - startTime in ms
FetchOutcomes ==
    {[kind |-> "response"]}
    \cup {[kind |-> "threw", isError |-> TRUE, isTypeError |-> FALSE, name |-> "AbortError",
           message |-> Msg_Aborted, elapsed |-> 5000]}
    \cup [kind : {"threw"}, isError : {TRUE}, isTypeError : {TRUE}, name : {"TypeError"},
          message : {Msg_FailedToFetch, Msg_NetworkError, Msg_LoadFailed},
          elapsed : {20, 800}]
    \cup [kind : {"threw"}, isError : {TRUE}, isTypeError : {FALSE}, name : {"Error"},
          message : {Msg_Boom, Msg_Refused}, elapsed : {20, 800}]
    \cup [kind : {"threw"}, isError : {FALSE}, isTypeError : {FALSE}, name : {""},
          message : {Msg_Boom}, elapsed : {20}]

Open == [kind |-> "resolved", isOpen |-> TRUE, hostResolves |-> TRUE, message |-> "none"]

Closed(resolves, message) ==
    [kind |-> "resolved", isOpen |-> FALSE, hostResolves |-> resolves, message |-> message]

\* the catch block of the HTTP attempt
ClassifyFetchError(fetchErr, https) ==
    IF fetchErr.isError /\ fetchErr.name = "AbortError"
    THEN Closed(TRUE, "port is closed")
    ELSE IF https /\ fetchErr.isTypeError /\ fetchErr.elapsed < 100
    THEN Closed(TRUE, "Cannot verify HTTP port from HTTPS page")
    ELSE IF \/ Includes(fetchErr.message, <<"C", "O", "R", "S">>)
            \/ Includes(fetchErr.message, <<"N", "e", "t", "w", "o", "r", "k", "E", "r", "r", "o", "r">>)
            \/ Includes(fetchErr.message, <<"F", "a", "i", "l", "e", "d", " ", "t", "o", " ", "f", "e", "t", "c", "h">>)
            \/ Includes(fetchErr.message, <<"E", "R", "R", "_">>)
            \/ fetchErr.isTypeError
    THEN Open
    ELSE Closed(TRUE, "Connection error")

InitProbe ==
    /\ FormOff
    /\ SessionInit({NoEntry})
    /\ DetectOff
    /\ SyncOff
    /\ NotifyOff
    /\ ClientOff
    /\ ParseOff
    /\ TabOff
    /\ probePc = "called"
    /\ probeEndpoint \in ProbedEndpoints
    /\ isHttpsPage \in BOOLEAN
    /\ resolvedIp = <<>>
    /\ probeResult = [kind |-> "pending"]

\* up to the first await: the format checks, then the lookup or the attempt
ProbeStarts ==
    /\ probePc = "called"
    /\ IF EndpointFault(probeEndpoint) # ""
       THEN /\ probePc' = "done"
            /\ probeResult' = [kind |-> "rejected", message |-> EndpointFault(probeEndpoint)]
            /\ UNCHANGED resolvedIp
       ELSE IF IsIpAddress(HostOf(probeEndpoint))
       THEN /\ probePc' = "fetch"
            /\ resolvedIp' = HostOf(probeEndpoint)
            /\ UNCHANGED probeResult
       ELSE /\ probePc' = "dns"
            /\ UNCHANGED <<resolvedIp, probeResult>>
    /\ UNCHANGED <<probeEndpoint, isHttpsPage, outsideProbe>>

DnsSettles(outcome) ==
    /\ probePc = "dns"
    /\ IF outcome.kind = "answer"
       THEN /\ probePc' = "fetch"
            /\ resolvedIp' = outcome.ip
            /\ UNCHANGED probeResult
       ELSE /\ probePc' = "done"
            /\ probeResult' =
                  Closed(FALSE, IF outcome.kind = "no-records"
                                THEN "does not resolve to an IP address"
                                ELSE "Cannot resolve")
            /\ UNCHANGED resolvedIp
    /\ UNCHANGED <<probeEndpoint, isHttpsPage, outsideProbe>>

\* the awaited fetch settles
FetchSettles(outcome) ==
    /\ probePc = "fetch"
    /\ probePc' = "settled"
    /\ probeResult' = [kind |-> "pending", attempt |-> outcome]
    /\ UNCHANGED <<probeEndpoint, isHttpsPage, resolvedIp, outsideProbe>>

\* the return after the attempt
ProbeReturns ==
    /\ probePc = "settled"
    /\ probePc' = "done"
    /\ probeResult' =
          IF probeResult.attempt.kind = "response" THEN Open
          ELSE ClassifyFetchError(probeResult.attempt, isHttpsPage)
    /\ UNCHANGED <<probeEndpoint, isHttpsPage, resolvedIp, outsideProbe>>

NextProbe ==
    \/ ProbeStarts
    \/ \E outcome \in DnsOutcomes : DnsSettles(outcome)
    \/ \E outcome \in FetchOutcomes : FetchSettles(outcome)
    \/ ProbeReturns

SpecProbe == InitProbe /\ [][NextProbe]_vars

\* C19: for a well-formed endpoint whose host resolves, the probe answers
\* isOpen = false with a port-closed diagnostic when the HTTP attempt was
\* aborted by the timeout, and isOpen = true when the attempt ended in any
\* other way, a non-abort error thrown at once included.
C19_ClosedOnlyOnTimeout ==
    [][probePc = "settled" /\ probePc' = "done" =>
          IF probeResult.attempt.kind = "threw" /\ probeResult.attempt.name = "AbortError"
          THEN probeResult'.isOpen = FALSE /\ probeResult'.message = "port is closed"
          ELSE probeResult'.isOpen = TRUE]_vars

(***************************************************************************)
(* utils.ts and constants.ts: amounts                                      *)
(***************************************************************************)
\* CONTRACT_MINIMUMS, in wei
PROVIDER_MIN_STAKE == <<"2", "0", "0", "0", "0", "0", "0", "0", "0", "0", "0", "0", "0", "0", "0", "0", "0", "0">>
MODEL_MIN_STAKE == <<"1", "0", "0", "0", "0", "0", "0", "0", "0", "0", "0", "0", "0", "0", "0", "0", "0", "0">>
MARKETPLACE_BID_FEE == <<"3", "0", "0", "0", "0", "0", "0", "0", "0", "0", "0", "0", "0", "0", "0", "0", "0", "0">>
BID_PRICE_PER_SEC_MIN == <<"1", "0", "0", "0", "0", "0", "0", "0", "0", "0", "0">>

\* (Number(BigInt(wei)) / 1e18).toFixed(18) for the three minimums: the
\* doubles nearest to 0.2, 0.1 and 0.3
toFixed18(wei) ==
    CASE wei = PROVIDER_MIN_STAKE -> <<"0", ".", "2", "0", "0", "0", "0", "0", "0", "0", "0", "0", "0", "0", "0", "0", "0", "0", "1", "1">>
      [] wei = MODEL_MIN_STAKE -> <<"0", ".", "1", "0", "0", "0", "0", "0", "0", "0", "0", "0", "0", "0", "0", "0", "0", "0", "0", "6">>
      [] wei = MARKETPLACE_BID_FEE -> <<"0", ".", "2", "9", "9", "9", "9", "9", "9", "9", "9", "9", "9", "9", "9", "9", "9", "9", "8", "9">>

\* the number of characters "0" text starts with
RECURSIVE LeadingZeros(_)
LeadingZeros(text) ==
    IF text # <<>> /\ Head(text) = "0" THEN 1 + LeadingZeros(Tail(text)) ELSE 0

\* text.replace(/0+$/, '')
RECURSIVE StripTrailingZeros(_)
StripTrailingZeros(text) ==
    IF text # <<>> /\ text[Len(text)] = "0"
    THEN StripTrailingZeros(SubSeq(text, 1, Len(text) - 1))
    ELSE text

Min(a, b) == IF a < b THEN a ELSE b

\* formatMor of a non-zero amount: the digits up to two places after the
\* first non-zero decimal, trailing zeros removed but not below those places
formatMor(wei) ==
    LET parts == Split(toFixed18(wei), ".")
        decimalPart == parts[2]
        firstNonZeroIndex == LeadingZeros(decimalPart)
        endIndex == Min(firstNonZeroIndex + 2, Len(decimalPart))
        cut == SubSeq(decimalPart, 1, Min(endIndex + 1, Len(decimalPart)))
        trimmed == StripTrailingZeros(cut)
        trimmedDecimal == IF Len(trimmed) < endIndex
                          THEN SubSeq(decimalPart, 1, endIndex) ELSE trimmed
    IN  IF firstNonZeroIndex = Len(decimalPart) THEN parts[1]
        ELSE parts[1] \o <<".">> \o trimmedDecimal

\* parseFloat(text) of a text without exponent: sign, digits, point, digits;
\* the value is kept as its decimal digits
parseFloat(text) ==
    LET signed == text # <<>> /\ text[1] \in {"-", "+"}
        body == IF signed THEN Tail(text) ELSE text
        n == LeadingDigits(body)
        rest == SubSeq(body, n + 1, Len(body))
        m == IF rest # <<>> /\ rest[1] = "." THEN LeadingDigits(Tail(rest)) ELSE 0
    IN  [nan |-> n = 0 /\ m = 0,
         neg |-> signed /\ text[1] = "-",
         int |-> SubSeq(body, 1, n),
         frac |-> IF m = 0 THEN <<>> ELSE SubSeq(rest, 2, m + 1)]

IsZero(num) == \A i \in DOMAIN (num.int \o num.frac) : (num.int \o num.frac)[i] = "0"

\* isValidPositiveNumber: !isNaN(num) && num > 0
isValidPositiveNumber(value) ==
    LET num == parseFloat(value)
    IN  ~num.nan /\ ~num.neg /\ ~IsZero(num)

\* a < b for two sequences of digits of the same length
DigitsLess(a, b) ==
    \E i \in DOMAIN a :
        /\ DigitValue(a[i]) < DigitValue(b[i])
        /\ \A j \in 1..(i - 1) : a[j] = b[j]

PadRight(digits, n) == digits \o [i \in 1..(n - Len(digits)) |-> "0"]

StripLeadingZeros(digits) == SubSeq(digits, LeadingZeros(digits) + 1, Len(digits))

\* a < b for two non-negative numbers; for the amounts entered here, which
\* have few digits, the order of the doubles is the order of the decimals
NumLess(a, b) ==
    LET ai == StripLeadingZeros(a.int)
        bi == StripLeadingZeros(b.int)
        n == IF Len(a.frac) < Len(b.frac) THEN Len(b.frac) ELSE Len(a.frac)
    IN  IF Len(ai) # Len(bi) THEN Len(ai) < Len(bi)
        ELSE IF ai # bi THEN DigitsLess(ai, bi)
        ELSE DigitsLess(PadRight(a.frac, n), PadRight(b.frac, n))

\* BigInt(text) throws a SyntaxError unless text is an integer literal
IsBigIntLiteral(text) ==
    LET body == IF text # <<>> /\ text[1] \in {"-", "+"} THEN Tail(text) ELSE text
    IN  LeadingDigits(body) = Len(body)

\* BigInt(a) < BigInt(b) for two non-negative integer literals
BigIntLess(a, b) ==
    NumLess([int |-> a, frac |-> <<>>], [int |-> b, frac |-> <<>>])

\* an amount of wei as MOR: the decimal point moved by 18 places
weiAsMor(wei) ==
    LET padded == [i \in 1..(19 - Len(wei)) |-> "0"] \o wei
    IN  [int |-> SubSeq(padded, 1, Len(padded) - 18),
         frac |-> SubSeq(padded, Len(padded) - 17, Len(padded))]

(***************************************************************************)
(* ProviderTab, ModelTab, ModelConfigGenerator: create and delete          *)
(***************************************************************************)
maxRetries == 5

\* a wrong variant of the wait: a fixed delay
waitTime_fixed(count) == 3

\* waitTime = retryCount * 3, in seconds
waitTime(count) == count * 3

PROVIDER_MIN_STAKE_MOR == formatMor(PROVIDER_MIN_STAKE)
MODEL_MIN_STAKE_MOR == formatMor(MODEL_MIN_STAKE)
MIN_FEE_WEI == MARKETPLACE_BID_FEE
MIN_BID_PRICE == BID_PRICE_PER_SEC_MIN

CreateKinds == {"createProvider", "createModelAndBid", "bidAction"}

DeleteKinds == {"deleteProvider", "deleteModel", "deleteBid", "deleteBidInGenerator"}

\* the mutations a create handler goes through, in order
Mutations(kind) ==
    CASE kind = "createProvider" -> <<"createProvider">>
      [] kind = "createModelAndBid" -> <<"createModel", "createBid">>
      [] kind = "bidAction" -> <<"createBid">>

\* the request a confirmed delete issues
DeleteRequest(kind) ==
    CASE kind = "deleteProvider" -> "deleteProvider"
      [] kind = "deleteModel" -> "deleteModel"
      [] kind = "deleteBid" -> "deleteBid"
      [] kind = "deleteBidInGenerator" -> "deleteBid"

\* isCreating is the busy flag of the create handlers and of ModelTab's deletes
UsesIsCreating(kind) == kind \in CreateKinds \cup {"deleteModel", "deleteBid"}

\* the values typed into the text inputs
StakeTexts ==
    {<<"0", ".", "2", "0">>, <<"0", ".", "1", "9">>, <<"a", "b", "c">>, <<"0">>, <<>>}

ModelStakeTexts == {<<"0", ".", "1", "0">>, <<"0", ".", "0", "9">>}

FeeTexts == {<<"0", ".", "2", "9", "9">>, <<"0", ".", "3", "0">>, <<"0", ".", "2", "9">>}

PriceTexts ==
    {<<"1", "0", "0", "0", "0", "0", "0", "0", "0", "0", "0">>, <<"9", "9", "9", "9", "9", "9", "9", "9", "9", "9">>, <<"1", ".", "5">>}

\* generateIds(): one of the identifiers the random bytes can give
SeedModelId == "0xSeed"

CreateForms(kind) ==
    CASE kind = "createProvider" ->
           [endpoint : {"node:3333"}, endpointStatus : {"reachable", "unverifiable"},
            stakeMor : StakeTexts]
      [] kind = "createModelAndBid" ->
           [modelName : {"", "Llama"}, stakeMor : ModelStakeTexts, feeMor : FeeTexts,
            bidPrice : PriceTexts, modelId : {SeedModelId}]
      [] kind = "bidAction" ->
           [selectedModel : {"0xA"}, bidPrice : PriceTexts]

\* the checks of a price: '' when it passes, the title of the warning, or
\* SyntaxError when BigInt(price) throws
PriceFault(price) ==
    IF ~isValidPositiveNumber(price) THEN "Validation Error"
    ELSE IF ~IsBigIntLiteral(price) THEN "SyntaxError"
    ELSE IF BigIntLess(price, MIN_BID_PRICE) THEN "Price Too Low"
    ELSE ""

\* the checks a create handler makes before setIsCreating(true)
FormFault(kind, form) ==
    CASE kind = "createProvider" ->
           IF form.endpoint = "" THEN "Validation Error"
           ELSE IF form.endpointStatus \notin {"reachable", "unverifiable"}
           THEN "Validation Error"
           ELSE IF ~isValidPositiveNumber(form.stakeMor) THEN "Validation Error"
           ELSE IF NumLess(parseFloat(form.stakeMor), parseFloat(PROVIDER_MIN_STAKE_MOR))
           THEN "Insufficient Stake"
           ELSE ""
      [] kind = "createModelAndBid" ->
           IF form.modelName = "" THEN "Validation Error"
           ELSE IF ~isValidPositiveNumber(form.stakeMor) THEN "Validation Error"
           ELSE IF NumLess(parseFloat(form.stakeMor), parseFloat(MODEL_MIN_STAKE_MOR))
           THEN "Insufficient Stake"
           ELSE IF ~isValidPositiveNumber(form.feeMor) THEN "Validation Error"
           ELSE IF NumLess(parseFloat(form.feeMor), parseFloat(formatMor(MIN_FEE_WEI)))
           THEN "Insufficient Fee"
           ELSE PriceFault(form.bidPrice)
      [] kind = "bidAction" -> PriceFault(form.bidPrice)

\* notifications
NoNotice == [type |-> "none", title |-> "", message |-> ""]

Notice(type, title) == [type |-> type, title |-> title, message |-> ""]

ErrorNotice(title, message) == [type |-> "error", title |-> title, message |-> message]

FailureTitle(kind) ==
    CASE kind = "createProvider" -> "Provider Creation Failed"
      [] kind = "createModelAndBid" -> "Creation Failed"
      [] kind = "bidAction" -> "Bid Creation Failed"
      [] OTHER -> "Delete Failed"

\* what a handler has done: a request, its answer or failure, a timer, a
\* step of the confirmation dialog
Request(op, id) == [e |-> "request", op |-> op, n |-> 0, id |-> id]

Answered(op, id) == [e |-> "answered", op |-> op, n |-> 0, id |-> id]

\* the count-th failure of op in its loop
Failure(op, count) == [e |-> "failed", op |-> op, n |-> count, id |-> ""]

Wait(seconds) == [e |-> "wait", op |-> "setTimeout", n |-> seconds, id |-> ""]

Dialog(step, kind, item) == [e |-> step, op |-> kind, n |-> 0, id |-> item]

\* a wrong variant: the bid is created for the id the client generated
RequestId_seed(kind, step, form, minted) ==
    CASE step = "createProvider" -> ""
      [] step = "createModel" -> form.modelId
      [] step = "createBid" ->
           IF kind = "createModelAndBid" THEN form.modelId ELSE form.selectedModel

\* the model id a mutation is requested with
RequestId(kind, step, form, minted) ==
    CASE step = "createProvider" -> ""
      [] step = "createModel" -> form.modelId
      [] step = "createBid" ->
           IF kind = "createModelAndBid" THEN minted ELSE form.selectedModel

\* what the tab reloads after a success
ReloadRequests(kind) ==
    CASE kind \in {"createProvider", "deleteProvider"} -> <<Request("getProviders", "")>>
      [] kind = "deleteBidInGenerator" -> <<Request("getLocalModels", "")>>
      [] OTHER -> <<Request("getModels", ""), Request("getBids", "")>>

\* the failures of a mutation; a delete can also be refused by the
\* preflight, which parseError reports with a message that names CORS
CorsError ==
    [isAxiosError |-> TRUE, isError |-> TRUE,
     message |-> "Access-Control-Allow-Methods",
     data |-> [kind |-> "none"]]

MentionsCors(message) == message = "Access-Control-Allow-Methods"

ThrownError(message) ==
    [isAxiosError |-> FALSE, isError |-> TRUE, message |-> message,
     data |-> [kind |-> "none"]]

\* response.data.model of POST /blockchain/models: the model under the id
\* the client sent, under an id of the remote's own, or no model
CreateModelAnswers ==
    {[present |-> TRUE, Id |-> SeedModelId], [present |-> TRUE, Id |-> "0xMinted"],
     [present |-> FALSE, Id |-> ""]}

MutationAnswers(step) ==
    CASE step = "createModel" -> CreateModelAnswers
      [] step = "createProvider" -> {[present |-> TRUE, Id |-> "0xW1"]}
      [] step = "createBid" -> {[present |-> TRUE, Id |-> "bid-9"]}
      [] OTHER -> {}

\* the items of the lists a delete button belongs to
DeleteItems(kind) ==
    CASE kind = "deleteProvider" -> {"0xW1"}
      [] kind = "deleteModel" -> {"0xA", "0xB"}
      [] OTHER -> {"bid-1", "bid-2"}

InitTab ==
    /\ FormOff
    /\ SessionConnected
    /\ DetectOff
    /\ SyncOff
    /\ NotifyOff
    /\ ClientOff
    /\ ParseOff
    /\ ProbeOff
    /\ wfKind = "none"
    /\ wfPc = "idle"
    /\ wfStep = "none"
    /\ wfForm = Null
    /\ isCreating = FALSE
    /\ isDeleting = FALSE
    /\ retryCount = 0
    /\ events = <<>>
    /\ lastError = Null
    /\ tabNotice = NoNotice
    /\ actualModelId = ""
    /\ confirmDialog = NoDialog

\* catch and finally: the handler is over
HandlerEnds(notice) ==
    /\ wfPc' = "idle"
    /\ isCreating' = FALSE
    /\ isDeleting' = FALSE
    /\ tabNotice' = notice

\* handleCreateProvider, handleCreateModelAndBid, handleBidAction up to the
\* first await; the buttons are disabled while isCreating
HandleCreate(kind, form) ==
    /\ wfPc = "idle"
    /\ ~isCreating
    /\ ~confirmDialog.open
    /\ apiService # Null
    /\ walletBalance # Null
    /\ wfKind' = kind
    /\ wfForm' = form
    /\ retryCount' = 0
    /\ lastError' = Null
    /\ actualModelId' = ""
    /\ LET fault == FormFault(kind, form)
       IN
       IF fault # ""
       THEN /\ events' = <<>>
            /\ wfStep' = "none"
            /\ tabNotice' = IF fault = "SyntaxError" THEN NoNotice
                             ELSE Notice("warning", fault)
            /\ UNCHANGED <<wfPc, isCreating>>
       ELSE /\ isCreating' = TRUE
            /\ events' = <<Request("getAllowance", "")>>
            /\ wfStep' = Mutations(kind)[1]
            /\ wfPc' = "allowance"
            /\ tabNotice' = NoNotice
    /\ UNCHANGED <<isDeleting, confirmDialog, outsideTab>>

\* the first request of the retry loop
FirstAttempt == Request(wfStep, RequestId(wfKind, wfStep, wfForm, actualModelId))

\* getAllowance resolves: currentAllowanceBigInt < required, or not
AllowanceAnswers(sufficient) ==
    /\ wfPc = "allowance"
    /\ IF sufficient
       THEN /\ events' = events \o <<Answered("getAllowance", "sufficient"), FirstAttempt>>
            /\ wfPc' = "attempt"
            /\ UNCHANGED tabNotice
       ELSE /\ events' = events \o <<Answered("getAllowance", "insufficient"),
                                      Request("approve", "")>>
            /\ wfPc' = "approve"
            /\ tabNotice' = Notice("warning", "Approval Required")
    /\ UNCHANGED <<wfKind, wfStep, wfForm, isCreating, isDeleting, retryCount, lastError,
                   actualModelId, confirmDialog, outsideTab>>

\* approve resolves: the 5 s wait for the confirmation starts
ApproveAnswers ==
    /\ wfPc = "approve"
    /\ events' = events \o <<Answered("approve", ""), Wait(5)>>
    /\ wfPc' = "confirmation"
    /\ tabNotice' = Notice("success", "Approval Successful - Waiting for Confirmation")
    /\ UNCHANGED <<wfKind, wfStep, wfForm, isCreating, isDeleting, retryCount, lastError,
                   actualModelId, confirmDialog, outsideTab>>

ConfirmationElapses ==
    /\ wfPc = "confirmation"
    /\ events' = Append(events, FirstAttempt)
    /\ wfPc' = "attempt"
    /\ tabNotice' = Notice("success", "Blockchain Confirmed")
    /\ UNCHANGED <<wfKind, wfStep, wfForm, isCreating, isDeleting, retryCount, lastError,
                   actualModelId, confirmDialog, outsideTab>>

\* getAllowance or approve rejects: catch, finally
PreparationFails(error) ==
    /\ wfPc \in {"allowance", "approve"}
    /\ events' = Append(events, Failure(events[Len(events)].op, 0))
    /\ lastError' = error
    /\ HandlerEnds(ErrorNotice(FailureTitle(wfKind), parseError(error)))
    /\ UNCHANGED <<wfKind, wfStep, wfForm, retryCount, actualModelId, confirmDialog,
                   outsideTab>>

\* the awaited mutation resolves with response.data.provider / model / bid
AttemptAnswers(answer) ==
    /\ wfPc = "attempt"
    /\ LET steps == Mutations(wfKind)
           last == wfStep = steps[Len(steps)]
           answered == Append(events, Answered(wfStep, answer.Id))
       IN  IF wfStep = "createModel" /\ ~answer.present
           THEN \* throw new Error('Failed to create model after retries')
                /\ events' = answered
                /\ lastError' = ThrownError("Failed to create model after retries")
                /\ HandlerEnds(ErrorNotice(FailureTitle(wfKind),
                                           parseError(ThrownError(
                                               "Failed to create model after retries"))))
                /\ UNCHANGED <<wfStep, retryCount, actualModelId>>
           ELSE IF ~last
           THEN \* actualModelId = createdModel.Id; retryCount = 0; the bid loop
                /\ actualModelId' = answer.Id
                /\ retryCount' = 0
                /\ wfStep' = steps[2]
                /\ events' = Append(answered,
                                     Request(steps[2],
                                             RequestId(wfKind, steps[2], wfForm, answer.Id)))
                /\ lastError' = Null
                /\ tabNotice' = Notice("success", "Model Created")
                /\ UNCHANGED <<wfPc, isCreating, isDeleting>>
           ELSE \* reset the form and reload
                /\ events' = answered \o ReloadRequests(wfKind)
                /\ wfPc' = "reload"
                /\ tabNotice' = Notice("success", "Created")
                /\ UNCHANGED <<wfStep, isCreating, isDeleting, retryCount, lastError,
                               actualModelId>>
    /\ UNCHANGED <<wfKind, wfForm, confirmDialog, outsideTab>>

\* the awaited mutation rejects: retryCount++, then either the rethrow to
\* catch and finally, or the warning and the timer of the next round
AttemptFails(error) ==
    /\ wfPc = "attempt"
    /\ retryCount' = retryCount + 1
    /\ lastError' = error
    /\ IF retryCount + 1 >= maxRetries
       THEN /\ events' = Append(events, Failure(wfStep, retryCount + 1))
            /\ HandlerEnds(ErrorNotice(FailureTitle(wfKind), parseError(error)))
       ELSE /\ events' = events \o <<Failure(wfStep, retryCount + 1),
                                      Wait(waitTime(retryCount + 1))>>
            /\ wfPc' = "backoff"
            /\ tabNotice' = Notice("warning", "Retrying")
            /\ UNCHANGED <<isCreating, isDeleting>>
    /\ UNCHANGED <<wfKind, wfStep, wfForm, actualModelId, confirmDialog, outsideTab>>

\* the timer of the round fires: the mutation is requested again
BackoffElapses ==
    /\ wfPc = "backoff"
    /\ events' = Append(events, FirstAttempt)
    /\ wfPc' = "attempt"
    /\ UNCHANGED <<wfKind, wfStep, wfForm, isCreating, isDeleting, retryCount, lastError,
                   tabNotice, actualModelId, confirmDialog, outsideTab>>

\* loadProviders / loadData settle; they catch their own errors
ReloadSettles(ok) ==
    /\ wfPc = "reload"
    /\ IF wfKind \in {"createProvider", "deleteProvider"}
       THEN \* await loadProviderStatus()
            /\ events' = Append(events, Request("getProviderStatus", ""))
            /\ wfPc' = "reloadStatus"
            /\ tabNotice' = IF ok THEN tabNotice ELSE ErrorNotice("Failed to Load", "")
            /\ UNCHANGED <<isCreating, isDeleting>>
       ELSE /\ HandlerEnds(IF ok THEN tabNotice ELSE ErrorNotice("Failed to Load", ""))
            /\ UNCHANGED events
    /\ UNCHANGED <<wfKind, wfStep, wfForm, retryCount, lastError, actualModelId,
                   confirmDialog, outsideTab>>

\* loadProviderStatus settles; a failure is only logged
StatusSettles ==
    /\ wfPc = "reloadStatus"
    /\ HandlerEnds(tabNotice)
    /\ UNCHANGED <<wfKind, wfStep, wfForm, retryCount, events, lastError, actualModelId,
                   confirmDialog, outsideTab>>

\* a wrong variant: the click issues the delete at once
HandleDeleteClick_immediate(kind, item, totalBids) ==
    /\ wfPc = "idle"
    /\ ~confirmDialog.open
    /\ apiService # Null
    /\ wfKind' = kind
    /\ wfForm' = [item |-> item]
    /\ wfStep' = DeleteRequest(kind)
    /\ retryCount' = 0
    /\ lastError' = Null
    /\ actualModelId' = ""
    /\ isCreating' = UsesIsCreating(kind)
    /\ isDeleting' = ~UsesIsCreating(kind)
    /\ events' = <<Request(DeleteRequest(kind), item)>>
    /\ wfPc' = "delete"
    /\ tabNotice' = NoNotice
    /\ UNCHANGED <<confirmDialog, outsideTab>>

\* handleDeleteProviderClick, handleDeleteModelClick, handleDeleteBidClick:
\* the dialog opens; a model that has bids is refused
HandleDeleteClick(kind, item, totalBids) ==
    /\ wfPc = "idle"
    /\ ~confirmDialog.open
    /\ apiService # Null
    /\ wfKind' = kind
    /\ wfForm' = [item |-> item]
    /\ wfStep' = "none"
    /\ retryCount' = 0
    /\ lastError' = Null
    /\ actualModelId' = ""
    /\ IF kind = "deleteModel" /\ totalBids > 0
       THEN /\ tabNotice' = Notice("warning", "Cannot Delete")
            /\ events' = <<>>
            /\ UNCHANGED confirmDialog
       ELSE /\ confirmDialog' = [open |-> TRUE, kind |-> kind, item |-> item]
            /\ events' = <<Dialog("opened", kind, item)>>
            /\ tabNotice' = NoNotice
    /\ UNCHANGED <<wfPc, isCreating, isDeleting, outsideTab>>

\* ConfirmDialog: onOpenChange(false)
DialogCancelled ==
    /\ confirmDialog.open
    /\ confirmDialog' = [confirmDialog EXCEPT !.open = FALSE]
    /\ events' = Append(events, Dialog("cancelled", confirmDialog.kind, confirmDialog.item))
    /\ UNCHANGED <<wfKind, wfPc, wfStep, wfForm, isCreating, isDeleting, retryCount,
                   lastError, tabNotice, actualModelId, outsideTab>>

\* ConfirmDialog: onConfirm, the *Confirm handler up to its await
DialogConfirmed ==
    /\ confirmDialog.open
    /\ apiService # Null
    /\ confirmDialog.item # ""
    /\ confirmDialog' = NoDialog
    /\ isCreating' = UsesIsCreating(confirmDialog.kind)
    /\ isDeleting' = ~UsesIsCreating(confirmDialog.kind)
    /\ wfStep' = DeleteRequest(confirmDialog.kind)
    /\ events' = events \o <<Dialog("confirmed", confirmDialog.kind, confirmDialog.item),
                              Request(DeleteRequest(confirmDialog.kind), confirmDialog.item)>>
    /\ wfPc' = "delete"
    /\ tabNotice' = IF confirmDialog.kind = "deleteProvider"
                     THEN Notice("warning", "Deleting Provider") ELSE NoNotice
    /\ UNCHANGED <<wfKind, wfForm, retryCount, lastError, actualModelId, outsideTab>>

DeleteAnswers ==
    /\ wfPc = "delete"
    /\ events' = Append(events, Answered(wfStep, "")) \o ReloadRequests(wfKind)
    /\ wfPc' = "reload"
    /\ tabNotice' = Notice("success", "Deleted")
    /\ UNCHANGED <<wfKind, wfStep, wfForm, isCreating, isDeleting, retryCount, lastError,
                   actualModelId, confirmDialog, outsideTab>>

DeleteFails(error) ==
    /\ wfPc = "delete"
    /\ events' = Append(events, Failure(wfStep, 1))
    /\ lastError' = error
    /\ HandlerEnds(IF wfKind \in {"deleteModel", "deleteBid"}
                      /\ MentionsCors(parseError(error))
                   THEN ErrorNotice("Server Configuration Issue", "")
                   ELSE ErrorNotice("Delete Failed", parseError(error)))
    /\ UNCHANGED <<wfKind, wfStep, wfForm, retryCount, actualModelId, confirmDialog,
                   outsideTab>>

\* what the user does
TabUser ==
    \/ \E kind \in CreateKinds : \E form \in CreateForms(kind) : HandleCreate(kind, form)
    \/ \E kind \in DeleteKinds : \E item \in DeleteItems(kind), totalBids \in {0, 1} :
           HandleDeleteClick(kind, item, totalBids)
    \/ DialogCancelled
    \/ DialogConfirmed

\* what the network and the timers do
TabProgress ==
    \/ \E sufficient \in BOOLEAN : AllowanceAnswers(sufficient)
    \/ ApproveAnswers
    \/ ConfirmationElapses
    \/ \E error \in TransportErrors : PreparationFails(error)
    \/ \E answer \in MutationAnswers(wfStep) : AttemptAnswers(answer)
    \/ \E error \in TransportErrors : AttemptFails(error)
    \/ BackoffElapses
    \/ \E ok \in BOOLEAN : ReloadSettles(ok)
    \/ StatusSettles
    \/ DeleteAnswers
    \/ \E error \in TransportErrors \cup {CorsError} : DeleteFails(error)

NextTab == TabUser \/ TabProgress

SpecTab == InitTab /\ [][NextTab]_vars

\* every timer fires and every request settles
SpecTabFair == SpecTab /\ WF_vars(TabProgress)

\* the positions in the log of the requests of a mutation
RequestsOf(op) == {i \in DOMAIN events : events[i].e = "request" /\ events[i].op = op}

RetriedMutations == {"createProvider", "createModel", "createBid"}

\* the requests of a mutation counted up to position i
AttemptNumber(op, i) == Cardinality({j \in RequestsOf(op) : j <= i})

C15_Attempts ==
    \A op \in RetriedMutations :
        \* at most five attempts
        /\ Cardinality(RequestsOf(op)) <= 5
        \* none after the first success
        /\ \A i \in DOMAIN events :
              events[i].e = "answered" /\ events[i].op = op =>
                  \A j \in RequestsOf(op) : j < i
        \* the N-th retry comes right after a wait of 3 * N seconds
        /\ \A i \in RequestsOf(op) :
              AttemptNumber(op, i) > 1 =>
                  events[i - 1] = Wait(3 * (AttemptNumber(op, i) - 1))
        \* the fifth failure is the last thing the handler does
        /\ \A i \in DOMAIN events :
              events[i] = Failure(op, 5) =>
                  /\ i = Len(events)
                  /\ wfPc = "idle"
                  /\ ~isCreating
                  /\ tabNotice = ErrorNotice(FailureTitle(wfKind), parseError(lastError))

\* the failure that ends a loop is reported with the error of that attempt
C15_LastErrorSurfaced ==
    [][wfPc = "attempt" /\ wfPc' = "idle" /\ retryCount' = 5 =>
          /\ lastError' \in TransportErrors
          /\ tabNotice' = ErrorNotice(FailureTitle(wfKind), parseError(lastError'))
          /\ events' = Append(events, Failure(wfStep, 5))]_vars

C16_ModelThenBid ==
    wfKind = "createModelAndBid" =>
        /\ \A j \in RequestsOf("createModel") :
              \E i \in 1..(j - 1) :
                  /\ events[i].e = "answered"
                  /\ events[i].op = "getAllowance"
                  /\ events[i].id = "insufficient" =>
                        \E k \in (i + 1)..(j - 1) : events[k] = Answered("approve", "")
        /\ \A j \in RequestsOf("createBid") :
              /\ events[j].id = actualModelId
              /\ \E i \in 1..(j - 1) :
                    /\ events[i] = Answered("createModel", events[j].id)
                    /\ \A k \in RequestsOf("createModel") : k < i
        /\ (\E i \in DOMAIN events : events[i] = Failure("createModel", 5)) =>
              RequestsOf("createBid") = {}

\* a bid requested for an id of the remote's own, after an approval
C16_BidOnReturnedId ==
    /\ wfKind = "createModelAndBid"
    /\ \E j \in RequestsOf("createBid") :
          /\ events[j].id = "0xMinted"
          /\ events[j].id # wfForm.modelId
    /\ \E i \in DOMAIN events : events[i] = Answered("approve", "")
    /\ \E i \in DOMAIN events : events[i] = Failure("createModel", 2)

\* the entered text is a number below the minimum, an amount of wei
BelowMor(text, minimumWei) ==
    LET num == parseFloat(text)
    IN  ~num.nan /\ (num.neg \/ NumLess(num, weiAsMor(minimumWei)))

BelowWei(text, minimumWei) ==
    LET num == parseFloat(text)
    IN  ~num.nan /\ (num.neg \/ NumLess(num, [int |-> minimumWei, frac |-> <<>>]))

BelowContractMinimum(kind, form) ==
    CASE kind = "createProvider" -> BelowMor(form.stakeMor, PROVIDER_MIN_STAKE)
      [] kind = "createModelAndBid" ->
           \/ BelowMor(form.stakeMor, MODEL_MIN_STAKE)
           \/ BelowMor(form.feeMor, MARKETPLACE_BID_FEE)
           \/ BelowWei(form.bidPrice, BID_PRICE_PER_SEC_MIN)
      [] kind = "bidAction" -> BelowWei(form.bidPrice, BID_PRICE_PER_SEC_MIN)
      [] OTHER -> FALSE

\* C17: a creation whose entered stake, fee or price is below the contract
\* minimum is rejected before any request: no getAllowance, approve or
\* create request is issued for it.
C17_BelowMinimumIssuesNoRequest ==
    BelowContractMinimum(wfKind, wfForm) =>
        \A i \in DOMAIN events : events[i].e # "request"

DeleteRequests ==
    {i \in DOMAIN events :
        /\ events[i].e = "request"
        /\ events[i].op \in {"deleteProvider", "deleteModel", "deleteBid"}}

\* C18: a deleteProvider, deleteModel or deleteBid request is issued only
\* after the confirmation dialog for that item was opened and the user
\* confirmed it; opening the dialog and cancelling issues no request.
C18_DeleteOnlyAfterConfirm ==
    /\ \A j \in DeleteRequests :
          /\ wfKind \in DeleteKinds
          /\ events[j].op = DeleteRequest(wfKind)
          /\ j > 2
          /\ events[j - 1] = Dialog("confirmed", wfKind, events[j].id)
          /\ \E i \in 1..(j - 2) :
                /\ events[i] = Dialog("opened", wfKind, events[j].id)
                /\ \A k \in (i + 1)..(j - 2) : events[k].e # "cancelled"
    /\ \A i \in DOMAIN events :
          events[i].e = "cancelled" => \A j \in DOMAIN events : events[j].e # "request"

\* a bid being deleted from the generator after its dialog was confirmed
C18_ConfirmedDeleteIssued ==
    /\ wfKind = "deleteBidInGenerator"
    /\ DeleteRequests # {}
    /\ \A j \in DeleteRequests : events[j] = Request("deleteBid", "bid-2")
    /\ wfPc = "delete"
    /\ isDeleting

(***************************************************************************)
(* ApiService: what the read operations resolve to                         *)
(***************************************************************************)
ReadCollections == {"getProviders", "getModels", "getBids", "getLocalModels"}

\* the resolved value is an array: the results built with || [] are, the
\* value of getLocalModels is whatever the body was
IsArray(result) == "typeof" \in DOMAIN result => result.typeof = "array"

\* C21: each of getProviders, getModels, getBids and getLocalModels that
\* resolves, resolves to an array, the empty array when the remote returned
\* an empty or missing collection, and never to null or undefined.
C21_ReadCollectionsResolveToArrays ==
    (apiOp \in ReadCollections /\ apiResult.kind = "resolved") => IsArray(apiResult)

(***************************************************************************)
(* The session's balance and its stored entry                              *)
(***************************************************************************)
\* C22: whenever walletBalance is non-null the session is Connected and the
\* balance was fetched through the client currently held, also when a fetch
\* started by the restore or by refreshWallet completes after a clearConfig
\* or after a later successful configure
C22_BalanceBelongsToConnection ==
    walletBalance # Null =>
        /\ isConfigured
        /\ apiService # Null
        /\ balanceVia = apiService

\* the chain and network of the stored entry as a reader of the entry sees them
StoredChain == JSONparse(sessionStorage).chain
StoredNetwork == JSONparse(sessionStorage).network

IsBlank(text) == \A i \in DOMAIN text : text[i] = " "

HostChars ==
    {"a", "b", "c", "d", "e", "f", "g", "h", "i", "j", "k", "l", "m", "n", "o", "p", "q", "r",
     "s", "t", "u", "v", "w", "x", "y", "z", "A", "B", "C", "D", "E", "F", "G", "H", "I", "J",
     "K", "L", "M", "N", "O", "P", "Q", "R", "S", "T", "U", "V", "W", "X", "Y", "Z", "0", "1",
     "2", "3", "4", "5", "6", "7", "8", "9", ".", "-"}

\* /^[a-zA-Z0-9.-]+:\d+$/.test(endpoint)
endpointPattern(text) ==
    LET parts == Split(text, ":")
    IN  /\ Len(parts) = 2
        /\ Len(parts[1]) > 0
        /\ \A i \in DOMAIN parts[1] : parts[1][i] \in HostChars
        /\ Len(parts[2]) > 0
        /\ LeadingDigits(parts[2]) = Len(parts[2])

\* what the user types into the field
TypedEndpoints ==
    {<<>>, <<" ">>,
     <<"n", "o", "d", "e", ":", "3", "3", "3", "3">>,
     <<"n", "o", "d", "e">>,
     <<"n", "o", "d", "e", ":", "7", "0", "0", "0", "0">>}

\* Endpoint of the provider registered for the wallet, as GET /blockchain/providers lists it
RegisteredEndpoints == {<<"1", "0", ".", "0", ".", "0", ".", "1", ":", "3", "3", "3", "3">>}

\* the stake field when Create is clicked: the minimum it starts with, or less
TypedStakes == {<<"0", ".", "2">>, <<"0", ".", "1">>}

\* how apiService.checkEndpointReachability(endpoint) can settle: rejected
\* on the format checks, closed on a failed lookup, or by the HTTP attempt
ProbeSettlements(text, https) ==
    IF EndpointFault(text) # ""
    THEN {[kind |-> "rejected", message |-> EndpointFault(text)]}
    ELSE (IF IsIpAddress(HostOf(text)) THEN {}
          ELSE {Closed(FALSE, "does not resolve to an IP address"),
                Closed(FALSE, "Cannot resolve")})
         \cup {Open}
         \cup {ClassifyFetchError(outcome, https) :
                 outcome \in {o \in FetchOutcomes : o.kind = "threw"}}

\* a component that shows every closed answer as unreachable
StatusOf_closedIsUnreachable(result) ==
    IF result.kind = "rejected" THEN "unreachable"
    ELSE IF result.isOpen THEN "reachable"
    ELSE "unreachable"

\* the endpointStatus the component sets for the settled probe; diagMsg
\* .includes('Cannot verify HTTP port from HTTPS') picks the mixed-content answer
StatusOf(result) ==
    IF result.kind = "rejected" THEN "unreachable"
    ELSE IF result.isOpen THEN "reachable"
    ELSE IF result.message = "Cannot verify HTTP port from HTTPS page" THEN "unverifiable"
    ELSE "unreachable"

NoticeOf(result) ==
    IF result.kind = "rejected" THEN "Validation Error"
    ELSE IF result.isOpen THEN "Port Open"
    ELSE IF result.message = "Cannot verify HTTP port from HTTPS page" THEN "Cannot Verify Port"
    ELSE "Port Closed"

InitForm ==
    /\ SessionConnected
    /\ DetectOff
    /\ SyncOff
    /\ NotifyOff
    /\ ClientOff
    /\ ParseOff
    /\ TabOff
    /\ probePc = "off"
    /\ probeEndpoint = <<>>
    /\ isHttpsPage \in BOOLEAN
    /\ resolvedIp = <<>>
    /\ probeResult = [kind |-> "none"]
    /\ formEndpoint = <<>>
    /\ endpointStatus = "unchecked"
    /\ isCheckingEndpoint = FALSE
    /\ diagnosticMessage = ""
    /\ checkArg = Null
    /\ probedLast = Null
    /\ createAttempt = Null
    /\ formNotice = "none"

\* onChange of the endpoint input
EndpointEdited(text) ==
    /\ text # formEndpoint
    /\ formEndpoint' = text
    /\ endpointStatus' = "unchecked"
    /\ UNCHANGED <<isCheckingEndpoint, diagnosticMessage, checkArg, probedLast, createAttempt,
                   formNotice, outsideForm>>

\* the effect on [walletBalance, providers] when the list holds the wallet's provider
PrefillFromProviders(registered) ==
    /\ formEndpoint' = registered
    /\ UNCHANGED <<endpointStatus, isCheckingEndpoint, diagnosticMessage, checkArg, probedLast,
                   createAttempt, formNotice, outsideForm>>

\* the Check button (disabled while checking or on a blank field) up to the await
CheckClicked ==
    /\ ~isCheckingEndpoint
    /\ ~IsBlank(formEndpoint)
    /\ IF ~endpointPattern(formEndpoint)
       THEN /\ formNotice' = "Invalid Format"
            /\ UNCHANGED <<endpointStatus, isCheckingEndpoint, diagnosticMessage, checkArg>>
       ELSE /\ isCheckingEndpoint' = TRUE
            /\ endpointStatus' = "checking"
            /\ diagnosticMessage' = ""
            /\ checkArg' = formEndpoint
            /\ UNCHANGED formNotice
    /\ UNCHANGED <<formEndpoint, probedLast, createAttempt, outsideForm>>

\* the awaited probe settles: try / catch / finally of the component
CheckSettles(result) ==
    /\ isCheckingEndpoint
    /\ checkArg # Null
    /\ result \in ProbeSettlements(checkArg, isHttpsPage)
    /\ endpointStatus' = StatusOf(result)
    /\ diagnosticMessage' =
          IF result.kind = "rejected" THEN result.message
          ELSE IF result.isOpen THEN diagnosticMessage
          ELSE result.message
    /\ formNotice' = NoticeOf(result)
    /\ isCheckingEndpoint' = FALSE
    /\ probedLast' = checkArg
    /\ checkArg' = Null
    /\ probeResult' = result
    /\ UNCHANGED <<formEndpoint, createAttempt, probePc, probeEndpoint, isHttpsPage, resolvedIp>>
    /\ UNCHANGED <<sessionVars, detectVars, syncVars, notifyVars, clientVars, parseVars, tabVars>>

\* the checks of handleCreateProvider before its first request
CreateFault(text, status, stake) ==
    IF Len(text) = 0 THEN "Validation Error"
    ELSE FormFault("createProvider",
                   [endpoint |-> "set", endpointStatus |-> status, stakeMor |-> stake])

\* handleCreateProvider: stopped by a check with a warning, or on to the
\* approval and POST /blockchain/providers with the endpoint of this render
HandleCreateProvider(stake) ==
    /\ apiService # Null
    /\ walletBalance # Null
    /\ IF CreateFault(formEndpoint, endpointStatus, stake) # ""
       THEN /\ formNotice' = CreateFault(formEndpoint, endpointStatus, stake)
            /\ createAttempt' = [endpoint |-> formEndpoint, status |-> endpointStatus,
                                 stake |-> stake, sent |-> FALSE]
       ELSE /\ formNotice' = "none"
            /\ createAttempt' = [endpoint |-> formEndpoint, status |-> endpointStatus,
                                 stake |-> stake, sent |-> TRUE]
    /\ UNCHANGED <<formEndpoint, endpointStatus, isCheckingEndpoint, diagnosticMessage,
                   checkArg, probedLast, outsideForm>>

NextForm ==
    \/ \E text \in TypedEndpoints : EndpointEdited(text)
    \/ \E registered \in RegisteredEndpoints : PrefillFromProviders(registered)
    \/ CheckClicked
    \/ \E result \in ProbeSettlements(checkArg, isHttpsPage) : CheckSettles(result)
    \/ \E stake \in TypedStakes : HandleCreateProvider(stake)

SpecForm == InitForm /\ [][NextForm]_vars

\* C24: whenever endpointStatus is 'reachable' or 'unverifiable', the text
\* of the endpoint field is the string the most recently completed probe ran
\* against, also when the field is edited or prefilled from the loaded
\* providers while a probe is in flight or after it completed
C24_StatusBelongsToFieldText ==
    endpointStatus \in {"reachable", "unverifiable"} => formEndpoint = probedLast

\* the stake passes the checks of handleCreateProvider
StakeAccepted(stake) ==
    /\ isValidPositiveNumber(stake)
    /\ ~NumLess(parseFloat(stake), parseFloat(PROVIDER_MIN_STAKE_MOR))

\* C26: the probe's mixed-content answer ('cannot verify') sets endpointStatus
\* to 'unverifiable', never 'unreachable'; and a click on Create goes on to
\* its requests exactly when endpointStatus is 'reachable' or 'unverifiable'
\* (the field and the stake being acceptable), and is stopped before any
\* request when it is 'unchecked', 'checking' or 'unreachable'
C26_UnverifiableAndGate ==
    [][/\ (/\ isCheckingEndpoint /\ ~isCheckingEndpoint'
           /\ probeResult'.kind = "resolved"
           /\ ~probeResult'.isOpen
           /\ probeResult'.message = "Cannot verify HTTP port from HTTPS page")
          => endpointStatus' = "unverifiable"
       /\ createAttempt' # Null =>
             (createAttempt'.sent <=>
                /\ createAttempt'.status \in {"reachable", "unverifiable"}
                /\ Len(createAttempt'.endpoint) > 0
                /\ StakeAccepted(createAttempt'.stake))]_vars

\* a provider creation went on to its requests on an 'unverifiable' endpoint
C26_CreatedOnUnverifiable ==
    /\ createAttempt # Null
    /\ createAttempt.sent
    /\ createAttempt.status = "unverifiable"
    /\ probeResult.kind = "resolved"
    /\ probeResult.message = "Cannot verify HTTP port from HTTPS page"

(***************************************************************************)
(* ModelConfigGenerator: the stored collections and what is derived        *)
(***************************************************************************)
\* the model ids an object of model configs has entries for
ConfiguredIds(configs) == {configs[i].modelId : i \in DOMAIN configs}

\* C25: whenever no loadData is in progress, syncStatus is the
\* reconciliation of the stored localModels, blockchainBids and
\* blockchainModels, and modelConfigs holds an entry for exactly the models
\* that reconciliation marks as needing configuration; also after a
\* loadData in which one fetch failed
C25_DerivedFromStoredCollections ==
    syncPc = "form" =>
        /\ syncStatus = SyncStatusOf(localModels, blockchainBids, blockchainModels)
        /\ ConfiguredIds(modelConfigs)
              = ConfiguredIds(ConfigsFrom(SyncStatusOf(localModels, blockchainBids,
                                                       blockchainModels), <<>>))

(***************************************************************************)
(* NotificationProvider: timers and identifiers                            *)
(***************************************************************************)
\* a pending setTimeout callback runs once its delay has passed
SpecNotifyFair ==
    SpecNotify /\ \A id \in NotificationIds : WF_vars(TimerFires(id))

\* a notification of this id with a duration above 0 is queued
TimedQueued(id) ==
    \E i \in DOMAIN notifications :
        notifications[i].id = id /\ notifications[i].duration > 0

\* every notification with a duration above 0 leaves the queue
EventuallyRemoved ==
    \A id \in NotificationIds : TimedQueued(id) ~> (id \notin QueuedIds(notifications))

\* what a step of the queue may remove: a timer at most the one notification
\* it was set for, which has a duration above 0, and nothing when that one
\* was dismissed before; a notification of duration 0 leaves only by a
\* dismissNotification from its close button
RemovesOnlyItsOwn ==
    /\ notifyOp'.op = "timeout" =>
          /\ Len(notifications) - Len(notifications') <= 1
          /\ \A i \in DOMAIN notifications :
                notifications[i].id = notifyOp'.id => notifications[i].duration > 0
          /\ notifyOp'.id \notin QueuedIds(notifications) => notifications' = notifications
    /\ \A i \in DOMAIN notifications :
          (notifications[i].duration = 0 /\ notifications[i].id \notin QueuedIds(notifications'))
             => notifyOp'.op = "dismissNotification"

\* no identifier is in use twice: the queued notifications differ in their
\* ids, and a pending timer is the only one of its id and belongs to a
\* queued notification with a duration above 0 or to none
CollisionFree ==
    /\ \A i, j \in DOMAIN notifications :
          notifications[i].id = notifications[j].id => i = j
    /\ \A id \in NotificationIds :
          BagIn(id, timers) =>
             /\ CopiesIn(id, timers) = 1
             /\ \A i \in DOMAIN notifications :
                   notifications[i].id = id => notifications[i].duration > 0

C28_QueuedIdsDiffer ==
    \A i, j \in DOMAIN notifications :
        notifications[i].id = notifications[j].id => i = j

(***************************************************************************)
(* ApiService.getBidsForModel: the page loop                               *)
(***************************************************************************)
\* the request a getBidsForModel call awaits is settled by the node or by
\* the transport
SpecClientFair ==
    SpecClient
      /\ WF_vars(\E data \in BidsAnswers(nodeBidCount, BATCH_SIZE, apiOffset) :
                    ModelBidsAnswer(data))

\* bids 1..n of the node in ascending order, each once
FirstBids(n) == [i \in 1..n |-> i]

InPageLoop == apiOp = "getBidsForModel" /\ apiPc = "/blockchain/models/{id}/bids/active"

\* the i-th request went out at offset (i - 1) * 255 after full pages only,
\* and the call returns the pages it received, ending on the first short page
PagesInOrder ==
    apiOp = "getBidsForModel" =>
        /\ InPageLoop =>
              /\ apiOffset = BATCH_SIZE * Len(apiRequests)
              /\ \A i \in DOMAIN apiRequests :
                    apiRequests[i].outcome = "answered" /\ apiRequests[i].length = BATCH_SIZE
              /\ allBids = FirstBids(apiOffset)
        /\ apiPc = "settled" =>
              /\ apiResult.kind = "resolved"
              /\ \A i \in 1..(Len(apiRequests) - 1) :
                    apiRequests[i].outcome = "answered" /\ apiRequests[i].length = BATCH_SIZE
              /\ IF apiRequests[Len(apiRequests)].outcome = "answered"
                 THEN /\ apiRequests[Len(apiRequests)].length < BATCH_SIZE
                      /\ apiResult.value = FirstBids(nodeBidCount)
                 ELSE apiResult.value = FirstBids(BATCH_SIZE * (Len(apiRequests) - 1))

\* C29: getBidsForModel requests pages of 255 at offsets 0, 255, 510, ... in
\* order, stops after the first page with fewer than 255 bids, returns the
\* concatenation of the pages it received with each bid once, and for every
\* finite set of bids the loop ends
C29_PageLoopCollectsAndEnds ==
    /\ []PagesInOrder
    /\ InPageLoop ~> (apiPc = "settled")

\* a call has returned all bids of a node that holds full pages and a partial one
C29_FullAndPartialPagesCollected ==
    /\ apiOp = "getBidsForModel"
    /\ apiPc = "settled"
    /\ Len(apiRequests) >= 3
    /\ nodeBidCount = 2 * BATCH_SIZE + 45
    /\ apiResult.value = FirstBids(nodeBidCount)

(***************************************************************************)
(* ModelConfigGenerator: the output panel and the form entries             *)
(***************************************************************************)
\* C30: whenever showEnvOutput is true, every entry of the form has a
\* non-empty API URL and at least 1 concurrent slot, so that producing the
\* full document never takes the path of the validation failure
C30_ShownOutputHasValidEntries ==
    showEnvOutput =>
        /\ \A k \in DOMAIN modelConfigs :
              /\ modelConfigs[k].apiUrl # ""
              /\ modelConfigs[k].concurrentSlots.t = "num"
              /\ modelConfigs[k].concurrentSlots.n >= 1
        /\ generateModelsConfigContent(localModels, modelConfigs).kind # "thrown"
        /\ renderedOutput.kind # "thrown"
====
